---- MODULE Spec2Model ----
(***************************************************************************)
(* Verification model of the team-c-monitor telemetry core:                *)
(*   - LogEvent field constraints           (backend/app/models.py)        *)
(*   - SlidingWindow add/get_events/evict   (backend/app/core/             *)
(*                                            sliding_window.py)           *)
(*   - ingest_log, get_metrics handlers     (backend/app/main.py)          *)
(*   - detect_anomalies                     (backend/app/core/anomalies.py)*)
(*   - compute_metrics                      (backend/app/core/metrics.py)  *)
(* Time is counted in whole minutes.                                       *)
(***************************************************************************)
EXTENDS Integers, Sequences, FiniteSets, TLC

VARIABLES
    events,     \* SlidingWindow.events: the deque, head first
    now,        \* the wall clock read by datetime.now(timezone.utc), in minutes
    last,       \* the last completed call: its name, argument, outcome, the window before it
    prevSnap,   \* the list returned by the call before `last`, when that was a successful get_events
    mono,       \* every add so far carried an aware timestamp >= all earlier ones
    hiTs,       \* the newest timestamp admitted so far (while mono)
    pc,         \* concurrent service: each worker thread's position in its call
    call,       \* concurrent service: each worker thread's current call and argument
    cutoff_time, \* concurrent service: each thread's local cutoff_time
    touched,    \* concurrent service: the thread's call has accessed the deque
    result,     \* concurrent service: each thread's outcome and returned list
    det,        \* detect_anomalies: the call's arguments and, once returned, its outcome
    met,        \* compute_metrics: the call's arguments and, once returned, its outcome
    resp,       \* the service: the status and body of the response to the last request
    ali,        \* object identities: the heap of event objects, the deque and the
                \* caller's list as references into it
    plan,       \* generate_plan: the call's arguments and, once returned, its outcome
    adapt,      \* DifficultyAdapter.update_difficulty: the call and its outcome
    vec,        \* a TextVectorizer instance and the outcome of the last call on it
    profile     \* the planner's stored user profile and the last request on it

winVars == <<events, now, last, prevSnap, mono, hiTs>>
histVars == <<last, prevSnap, mono, hiTs>>
concVars == <<pc, call, cutoff_time, touched, result>>
detVars == <<det>>
appVars == <<plan, adapt, vec, profile>>
extVars == <<met, resp, ali, appVars>>
vars == <<events, now, last, prevSnap, mono, hiTs, pc, call, cutoff_time, touched, result, det,
          met, resp, ali, plan, adapt, vec, profile>>

----------------------------------------------------------------------------
(* Bounds of the model *)

MaxLen == 3         \* add is offered while the window holds fewer events
MaxTime == 4        \* the clock stops advancing here
MaxOutliers == 3    \* detector inputs: up to this many events carry the raised latency
ConcMaxLen == 2     \* concurrent service: add is offered while the window holds fewer events
ConcMaxTime == 1    \* concurrent service: the clock stops advancing here

(* Program constants *)

WINDOW_MINUTES == 2

(* an offered timestamp lies 0..MaxAgo minutes before now: up to one minute *)
(* past the retention duration                                              *)
MaxAgo == WINDOW_MINUTES + 1

----------------------------------------------------------------------------
(* Timestamps: an aware datetime (UTC minute t), a timezone-naive datetime, *)
(* or None.                                                                 *)

Aware(t) == [kind |-> "aware", t |-> t]
Naive == [kind |-> "naive", t |-> 0]
NoneTs == [kind |-> "none", t |-> 0]

MkEvent(ts, uid, lat, tok) ==
    [timestamp |-> ts, user_id |-> uid, latency_ms |-> lat,
     tokens_used |-> tok, is_error |-> FALSE]

(* variant: ge=0 in place of gt=0 on latency_ms *)
LogEventValid_latency_ge0(rec) ==
    /\ rec.timestamp.kind # "none"
    /\ rec.user_id # ""
    /\ rec.latency_ms >= 0
    /\ rec.tokens_used >= 0

(* models.py LogEvent: the Field constraints pydantic enforces *)
LogEventValid(rec) ==
    /\ rec.timestamp.kind # "none"      \* timestamp: datetime = Field(...)
    /\ rec.user_id # ""                 \* min_length=1
    /\ rec.latency_ms > 0               \* gt=0
    /\ rec.tokens_used >= 0             \* ge=0

----------------------------------------------------------------------------
(* SlidingWindow._evict_old_events: pops the head while it is older than    *)
(* the cutoff. Comparing a naive timestamp with the aware cutoff raises     *)
(* TypeError; what was popped before stays popped.                          *)

RECURSIVE EvictLoop(_, _)
EvictLoop(evs, cutoff) ==
    IF evs = <<>> THEN [events |-> evs, raised |-> FALSE]
    ELSE IF Head(evs).timestamp.kind # "aware" THEN [events |-> evs, raised |-> TRUE]
    ELSE IF Head(evs).timestamp.t < cutoff THEN EvictLoop(Tail(evs), cutoff)
    ELSE [events |-> evs, raised |-> FALSE]

(* variant: "if" in place of "while", at most one event is popped *)
evict_pop_one(evs, t) ==
    IF evs = <<>> THEN [events |-> evs, raised |-> FALSE]
    ELSE IF Head(evs).timestamp.kind # "aware" THEN [events |-> evs, raised |-> TRUE]
    ELSE IF Head(evs).timestamp.t < t - WINDOW_MINUTES
         THEN [events |-> Tail(evs), raised |-> FALSE]
    ELSE [events |-> evs, raised |-> FALSE]

(* variant: "<=" in place of "<", an event aged exactly the retention is popped *)
evict_inclusive(evs, t) ==
    EvictLoop(evs, t - WINDOW_MINUTES + 1)

evict_old_events(evs, t) ==
    EvictLoop(evs, t - WINDOW_MINUTES)

(* SlidingWindow.add: the outcome and the deque it leaves *)
add(evs, event, t) ==
    IF event.timestamp.kind = "none"
    THEN [events |-> evs, status |-> "ValueError"]
    ELSE LET r == evict_old_events(Append(evs, event), t)
         IN  [events |-> r.events,
              status |-> IF r.raised THEN "RuntimeError" ELSE "ok"]

(* SlidingWindow.get_events: the outcome, the deque it leaves, the list returned *)
get_events(evs, t) ==
    LET r == evict_old_events(evs, t)
    IN  [events |-> r.events,
         status |-> IF r.raised THEN "RuntimeError" ELSE "ok",
         ret |-> IF r.raised THEN <<>> ELSE r.events]

(* main.py ingest_log: request validation, then add, then the status mapping *)
ingest_log(evs, rec, t) ==
    IF ~LogEventValid(rec)
    THEN [events |-> evs, status |-> 422]
    ELSE LET r == add(evs, rec, t)
         IN  [events |-> r.events,
              status |-> CASE r.status = "ok" -> 201
                           [] r.status = "ValueError" -> 400
                           [] OTHER -> 500]

----------------------------------------------------------------------------
(* Inputs offered to the calls *)

OfferedTs == {Aware(now - k) : k \in 0..MaxAgo} \cup {Naive}

AddArgs == {MkEvent(ts, "alice", 120, 50) : ts \in OfferedTs \cup {NoneTs}}

(* candidate records: every combination of field violations, on a fresh,   *)
(* a naive and a missing timestamp                                          *)
IngestArgs ==
    {MkEvent(ts, "alice", 120, 50) : ts \in OfferedTs}
    \cup {MkEvent(ts, uid, lat, tok) :
            ts \in {Aware(now), NoneTs}, uid \in {"", "alice"},
            lat \in {0, 120}, tok \in {-5, 50}}

NoArg == MkEvent(NoneTs, "", 0, 0)
NoSnap == [valid |-> FALSE, ret |-> <<>>, time |-> 0]

MinTs == 0 - MaxAgo

(* the bookkeeping of "admitted in non-decreasing timestamp order" *)
MonoAfter(event, appended) ==
    IF ~appended THEN mono
    ELSE mono /\ event.timestamp.kind = "aware" /\ event.timestamp.t >= hiTs

HiAfter(event, appended) ==
    IF appended /\ MonoAfter(event, appended) THEN event.timestamp.t
    ELSE IF MonoAfter(event, appended) THEN hiTs ELSE MinTs

----------------------------------------------------------------------------
(* The sequential service: one call at a time *)

Threads == {1, 2}

NoCall == [op |-> "none", arg |-> NoArg]
NoResult == [status |-> "none", ret |-> <<>>]

ConcIdle ==
    /\ pc = [t \in Threads |-> "idle"]
    /\ call = [t \in Threads |-> NoCall]
    /\ cutoff_time = [t \in Threads |-> 0]
    /\ touched = [t \in Threads |-> FALSE]
    /\ result = [t \in Threads |-> NoResult]

NoLast == [op |-> "none", arg |-> NoArg, status |-> "ok", code |-> 0,
           before |-> <<>>, ret |-> <<>>, time |-> 0]

HistIdle ==
    /\ last = NoLast
    /\ prevSnap = NoSnap
    /\ mono = TRUE
    /\ hiTs = MinTs

DetIdle == det = [pc |-> "idle"]

NoResp == [status |-> 0]

AppIdle ==
    /\ plan = [pc |-> "idle"]
    /\ adapt = [pc |-> "idle"]
    /\ vec = [pc |-> "idle"]
    /\ profile = [pc |-> "idle"]

ExtIdle ==
    /\ AppIdle
    /\ met = [pc |-> "idle"]
    /\ resp = NoResp
    /\ ali = [heap |-> <<>>, deque |-> <<>>, list |-> <<>>]

notWindow == <<concVars, detVars, extVars>>

InitWindow ==
    /\ events = <<>>
    /\ now = 0
    /\ HistIdle
    /\ ConcIdle
    /\ DetIdle
    /\ ExtIdle

Tick ==
    /\ now < MaxTime
    /\ now' = now + 1
    /\ UNCHANGED <<events, last, prevSnap, mono, hiTs>>
    /\ UNCHANGED notWindow

Add ==
    /\ Len(events) < MaxLen
    /\ \E event \in AddArgs :
        LET r == add(events, event, now)
            appended == event.timestamp.kind # "none"
        IN  /\ events' = r.events
            /\ last' = [op |-> "add", arg |-> event, status |-> r.status, code |-> 0,
                        before |-> events, ret |-> <<>>, time |-> now]
            /\ mono' = MonoAfter(event, appended)
            /\ hiTs' = HiAfter(event, appended)
    /\ prevSnap' = NoSnap
    /\ UNCHANGED now
    /\ UNCHANGED notWindow

IngestLog ==
    /\ Len(events) < MaxLen
    /\ \E rec \in IngestArgs :
        LET r == ingest_log(events, rec, now)
            appended == r.status \in {201, 500}
        IN  /\ events' = r.events
            /\ last' = [op |-> "ingest_log", arg |-> rec,
                        status |-> IF r.status = 201 THEN "ok" ELSE "HTTPException",
                        code |-> r.status,
                        before |-> events, ret |-> <<>>, time |-> now]
            /\ mono' = MonoAfter(rec, appended)
            /\ hiTs' = HiAfter(rec, appended)
    /\ prevSnap' = NoSnap
    /\ UNCHANGED now
    /\ UNCHANGED notWindow

GetEvents ==
    /\ LET r == get_events(events, now)
       IN  /\ events' = r.events
           /\ last' = [op |-> "get_events", arg |-> NoArg, status |-> r.status, code |-> 0,
                       before |-> events, ret |-> r.ret, time |-> now]
    /\ prevSnap' = IF last.op = "get_events" /\ last.status = "ok"
                   THEN [valid |-> TRUE, ret |-> last.ret, time |-> last.time]
                   ELSE NoSnap
    /\ UNCHANGED <<now, mono, hiTs>>
    /\ UNCHANGED notWindow

NextWindow == Tick \/ Add \/ IngestLog \/ GetEvents

SpecWindow == InitWindow /\ [][NextWindow]_vars

----------------------------------------------------------------------------
(* C1. Eviction correctness: with events admitted in non-decreasing        *)
(* timestamp order, a list returned by get_events at time t holds no event *)
(* whose age (t minus its timestamp) exceeds WINDOW_MINUTES.               *)
C1_EvictionCorrect ==
    (last.op = "get_events" /\ last.status = "ok" /\ mono) =>
        \A i \in 1..Len(last.ret) :
            last.time - last.ret[i].timestamp.t <= WINDOW_MINUTES

(* a snapshot under monotonic admission that evicted an event and kept one *)
C1_Witness ==
    /\ last.op = "get_events" /\ last.status = "ok" /\ mono
    /\ Len(last.ret) >= 1
    /\ Len(last.ret) < Len(last.before)

IsSuffix(s, full) ==
    /\ Len(s) <= Len(full)
    /\ s = SubSeq(full, Len(full) - Len(s) + 1, Len(full))

HeadLive(list, t) ==
    list = <<>> \/
    (Head(list).timestamp.kind = "aware" /\ t - Head(list).timestamp.t <= WINDOW_MINUTES)

(* C2 as stated. Snapshot idempotence: two consecutive get_events calls    *)
(* with no add between them return identical ordered lists, whatever time  *)
(* elapses between the two calls.                                          *)
C2_SnapshotIdempotent ==
    (last.op = "get_events" /\ last.status = "ok" /\ prevSnap.valid) =>
        last.ret = prevSnap.ret

(* C2 amended. Of two consecutive get_events calls with no add between     *)
(* them, the second succeeds and returns the identical ordered list when   *)
(* the head of the first list is still within the retention duration at   *)
(* the second call (or the first list is empty); whenever the second call  *)
(* returns, its list is a suffix of the first.                             *)
C2_IdempotentWhileHeadLive ==
    (last.op = "get_events" /\ prevSnap.valid) =>
        /\ HeadLive(prevSnap.ret, last.time) =>
                (last.status = "ok" /\ last.ret = prevSnap.ret)
        /\ last.status = "ok" => IsSuffix(last.ret, prevSnap.ret)

(* a second snapshot taken later than the first, returning the same non-empty list *)
C2_Witness ==
    /\ last.op = "get_events" /\ last.status = "ok" /\ prevSnap.valid
    /\ last.time > prevSnap.time
    /\ last.ret # <<>>
    /\ last.ret = prevSnap.ret

(* the field conditions of the validation gate, as the claim lists them *)
GateConditions(rec) ==
    /\ rec.timestamp.kind # "none"
    /\ rec.user_id # ""
    /\ rec.latency_ms > 0
    /\ rec.tokens_used >= 0

(* C4. Validation gate: a record that violates a field condition is        *)
(* rejected by Ingest with the validation error (422) and leaves the       *)
(* window exactly as it was; every event in the window meets the           *)
(* conditions.                                                             *)
C4_ValidationGate ==
    /\ (last.op = "ingest_log" /\ ~GateConditions(last.arg)) =>
            (last.code = 422 /\ events = last.before)
    /\ \A i \in 1..Len(events) : GateConditions(events[i])

(* an invalid record was rejected while the window held events *)
C4_Witness ==
    /\ last.op = "ingest_log"
    /\ ~GateConditions(last.arg)
    /\ last.code = 422
    /\ events # <<>>
    /\ events = last.before

(* C5. Failed ingestion leaves state unchanged: whenever add fails         *)
(* (ValueError or RuntimeError) the window holds the same ordered events   *)
(* as before the call.                                                     *)
C5_FailedAddLeavesWindow ==
    (last.op = "add" /\ last.status # "ok") => events = last.before

----------------------------------------------------------------------------
(* The concurrent service. main.py declares ingest_log and get_metrics as  *)
(* plain "def" handlers, which the framework runs on worker threads, and   *)
(* SlidingWindow takes no lock: the calls of two requests interleave at    *)
(* every access to the deque. One action is one such access.               *)
(* Offered here: aware timestamps, fresh or already past the retention.    *)

ConcArgs == {MkEvent(Aware(now - k), "alice", 120, 50) : k \in {0, MaxAgo}}

InitConc ==
    /\ events = <<>>
    /\ now = 0
    /\ HistIdle
    /\ ConcIdle
    /\ DetIdle
    /\ ExtIdle

Goto(t, loc) == pc' = [pc EXCEPT ![t] = loc]

Raise(t, exc) ==
    /\ Goto(t, "done")
    /\ result' = [result EXCEPT ![t] = [status |-> exc, ret |-> <<>>]]

(* the loop of _evict_old_events is left: add returns, get_events copies *)
LeaveLoop(t) ==
    IF call[t].op = "add"
    THEN /\ Goto(t, "done")
         /\ result' = [result EXCEPT ![t] = [status |-> "ok", ret |-> <<>>]]
    ELSE /\ Goto(t, "copy")
         /\ UNCHANGED result

ConcTick ==
    /\ now < ConcMaxTime
    /\ now' = now + 1
    /\ UNCHANGED <<events, histVars, concVars, detVars, extVars>>

(* a request arrives: add(event) up to its timestamp check *)
BeginAdd(t) ==
    /\ pc[t] = "idle"
    /\ Len(events) < ConcMaxLen
    /\ \E event \in ConcArgs :
        /\ call' = [call EXCEPT ![t] = [op |-> "add", arg |-> event]]
        /\ IF event.timestamp.kind = "none"
           THEN Raise(t, "ValueError")
           ELSE Goto(t, "append") /\ UNCHANGED result
    /\ UNCHANGED <<events, now, histVars, detVars, extVars, cutoff_time, touched>>

(* a request arrives: get_events() *)
BeginGetEvents(t) ==
    /\ pc[t] = "idle"
    /\ call' = [call EXCEPT ![t] = [op |-> "get_events", arg |-> NoArg]]
    /\ Goto(t, "cutoff")
    /\ UNCHANGED <<events, now, histVars, detVars, extVars, cutoff_time, touched, result>>

(* self.events.append(event) *)
AppendStep(t) ==
    /\ pc[t] = "append"
    /\ events' = Append(events, call[t].arg)
    /\ touched' = [touched EXCEPT ![t] = TRUE]
    /\ Goto(t, "cutoff")
    /\ UNCHANGED <<now, histVars, detVars, extVars, call, cutoff_time, result>>

(* cutoff_time = datetime.now(timezone.utc) - timedelta(minutes=WINDOW_MINUTES) *)
CutoffStep(t) ==
    /\ pc[t] = "cutoff"
    /\ cutoff_time' = [cutoff_time EXCEPT ![t] = now - WINDOW_MINUTES]
    /\ Goto(t, "test_nonempty")
    /\ UNCHANGED <<events, now, histVars, detVars, extVars, call, touched, result>>

(* while self.events ... *)
TestNonempty(t) ==
    /\ pc[t] = "test_nonempty"
    /\ touched' = [touched EXCEPT ![t] = TRUE]
    /\ IF events = <<>>
       THEN LeaveLoop(t)
       ELSE Goto(t, "test_head") /\ UNCHANGED result
    /\ UNCHANGED <<events, now, histVars, detVars, extVars, call, cutoff_time>>

(* ... and self.events[0].timestamp < cutoff_time *)
TestHead(t) ==
    /\ pc[t] = "test_head"
    /\ IF events = <<>>
       THEN Raise(t, "RuntimeError")                   \* IndexError, wrapped
       ELSE IF Head(events).timestamp.kind # "aware"
       THEN Raise(t, "RuntimeError")                   \* TypeError, wrapped
       ELSE IF Head(events).timestamp.t < cutoff_time[t]
       THEN Goto(t, "popleft") /\ UNCHANGED result
       ELSE LeaveLoop(t)
    /\ UNCHANGED <<events, now, histVars, detVars, extVars, call, cutoff_time, touched>>

(* self.events.popleft() *)
PopLeft(t) ==
    /\ pc[t] = "popleft"
    /\ IF events = <<>>
       THEN Raise(t, "RuntimeError") /\ UNCHANGED events   \* IndexError, wrapped
       ELSE /\ events' = Tail(events)
            /\ Goto(t, "test_nonempty")
            /\ UNCHANGED result
    /\ UNCHANGED <<now, histVars, detVars, extVars, call, cutoff_time, touched>>

(* return list(self.events) *)
CopyStep(t) ==
    /\ pc[t] = "copy"
    /\ result' = [result EXCEPT ![t] = [status |-> "ok", ret |-> events]]
    /\ Goto(t, "done")
    /\ UNCHANGED <<events, now, histVars, detVars, extVars, call, cutoff_time, touched>>

(* the call has returned or raised; the worker is free again *)
Return(t) ==
    /\ pc[t] = "done"
    /\ Goto(t, "idle")
    /\ call' = [call EXCEPT ![t] = NoCall]
    /\ cutoff_time' = [cutoff_time EXCEPT ![t] = 0]
    /\ touched' = [touched EXCEPT ![t] = FALSE]
    /\ result' = [result EXCEPT ![t] = NoResult]
    /\ UNCHANGED <<events, now, histVars, detVars, extVars>>

NextConc ==
    \/ ConcTick
    \/ \E t \in Threads :
        \/ BeginAdd(t) \/ BeginGetEvents(t) \/ AppendStep(t) \/ CutoffStep(t)
        \/ TestNonempty(t) \/ TestHead(t) \/ PopLeft(t) \/ CopyStep(t) \/ Return(t)

SpecConc == InitConc /\ [][NextConc]_vars

(* a call is inside its window section from its first access to the deque *)
(* until it returns or raises                                             *)
InSection(t) == touched[t] /\ pc[t] \notin {"idle", "done"}

(* C3. Mutual exclusion on the window: the append, the eviction sweep and  *)
(* the snapshot copy of one call run as one exclusive critical section, so *)
(* no two concurrent calls are inside their window sections at once.       *)
C3_MutualExclusion ==
    \A t1 \in Threads : \A t2 \in Threads :
        (t1 # t2) => ~(InSection(t1) /\ InSection(t2))

----------------------------------------------------------------------------
(* IEEE-754 binary64 arithmetic, as numpy and Python floats compute it.    *)
(* A natural number is a little-endian sequence of limbs in base 2^15 (so  *)
(* that no intermediate exceeds the checker's integers); a float is zero   *)
(* or sign * m * 2^e with a 53-bit m, and every operation rounds its exact *)
(* result to nearest, ties to even. Subnormals, infinities and NaN do not  *)
(* arise from the latencies and counts of this model.                      *)

Base == 2^15
MantBits == 52 + 1

RECURSIVE BNNorm(_)
BNNorm(a) ==
    IF a = <<>> THEN a
    ELSE IF a[Len(a)] = 0 THEN BNNorm(SubSeq(a, 1, Len(a) - 1))
    ELSE a

RECURSIVE BNFromInt(_)
BNFromInt(i) == IF i = 0 THEN <<>> ELSE <<i % Base>> \o BNFromInt(i \div Base)

RECURSIVE BNAddC(_, _, _)
BNAddC(a, b, c) ==
    IF a = <<>> /\ b = <<>> THEN (IF c = 0 THEN <<>> ELSE <<c>>)
    ELSE LET x == IF a = <<>> THEN 0 ELSE Head(a)
             y == IF b = <<>> THEN 0 ELSE Head(b)
             t == x + y + c
         IN  <<t % Base>> \o BNAddC(IF a = <<>> THEN a ELSE Tail(a),
                                    IF b = <<>> THEN b ELSE Tail(b),
                                    t \div Base)

BNAdd(a, b) == BNAddC(a, b, 0)

(* a - b for a >= b *)
RECURSIVE BNSubB(_, _, _)
BNSubB(a, b, c) ==
    IF a = <<>> THEN <<>>
    ELSE LET y == IF b = <<>> THEN 0 ELSE Head(b)
             t == Head(a) - y - c
         IN  <<IF t < 0 THEN t + Base ELSE t>>
             \o BNSubB(Tail(a), IF b = <<>> THEN b ELSE Tail(b), IF t < 0 THEN 1 ELSE 0)

BNSub(a, b) == BNNorm(BNSubB(a, b, 0))

(* -1, 0, 1 as a < b, a = b, a > b; both normalised *)
RECURSIVE BNCmpFrom(_, _, _)
BNCmpFrom(a, b, i) ==
    IF i = 0 THEN 0
    ELSE IF a[i] < b[i] THEN -1
    ELSE IF a[i] > b[i] THEN 1
    ELSE BNCmpFrom(a, b, i - 1)

BNCmp(a, b) ==
    IF Len(a) < Len(b) THEN -1
    ELSE IF Len(a) > Len(b) THEN 1
    ELSE BNCmpFrom(a, b, Len(a))

(* a * k + c for 0 <= k, c < Base *)
RECURSIVE BNMulSmallC(_, _, _)
BNMulSmallC(a, k, c) ==
    IF a = <<>> THEN (IF c = 0 THEN <<>> ELSE <<c>>)
    ELSE LET t == Head(a) * k + c
         IN  <<t % Base>> \o BNMulSmallC(Tail(a), k, t \div Base)

BNMulSmall(a, k) == BNNorm(BNMulSmallC(a, k, 0))

RECURSIVE BNMul(_, _)
BNMul(a, b) ==
    IF b = <<>> \/ a = <<>> THEN <<>>
    ELSE LET rest == BNMul(a, Tail(b))
         IN  BNAdd(BNMulSmall(a, Head(b)), IF rest = <<>> THEN rest ELSE <<0>> \o rest)

(* quotient and remainder of a by 0 < k < Base, from the top limb down *)
RECURSIVE BNDivSmallFrom(_, _, _, _)
BNDivSmallFrom(a, k, i, r) ==
    IF i = 0 THEN [q |-> <<>>, r |-> r]
    ELSE LET t == r * Base + a[i]
             low == BNDivSmallFrom(a, k, i - 1, t % k)
         IN  [q |-> Append(low.q, t \div k), r |-> low.r]

BNDivSmall(a, k) ==
    LET d == BNDivSmallFrom(a, k, Len(a), 0)
    IN  [q |-> BNNorm(d.q), r |-> d.r]

RECURSIVE IntBitLen(_)
IntBitLen(i) == IF i = 0 THEN 0 ELSE 1 + IntBitLen(i \div 2)

BNBitLen(a) == IF a = <<>> THEN 0 ELSE 15 * (Len(a) - 1) + IntBitLen(a[Len(a)])

Zeros(k) == [i \in 1..k |-> 0]

BNShl(a, s) ==
    IF a = <<>> THEN a
    ELSE Zeros(s \div 15) \o BNMulSmall(a, 2^(s % 15))

BNShr(a, s) ==
    IF s \div 15 >= Len(a) THEN <<>>
    ELSE BNDivSmall(SubSeq(a, (s \div 15) + 1, Len(a)), 2^(s % 15)).q

BNIsOdd(a) == a # <<>> /\ a[1] % 2 = 1

FZero == [s |-> 0, m |-> <<>>, e |-> 0]

(* a mantissa of at most 54 bits after rounding up, renormalised *)
FPack(sign, q1, e) ==
    IF BNBitLen(q1) > MantBits
    THEN [s |-> sign, m |-> BNShr(q1, 1), e |-> e + 1]
    ELSE [s |-> sign, m |-> q1, e |-> e]

(* q is M with its low k bits cut off; c compares those bits with half *)
FRoundUp(sign, q, e, c) ==
    FPack(sign, IF c = 1 \/ (c = 0 /\ BNIsOdd(q)) THEN BNAdd(q, <<1>>) ELSE q, e)

FRoundCut(sign, M, E, k, q) ==
    FRoundUp(sign, q, E + k, BNCmp(BNSub(M, BNShl(q, k)), BNShl(<<1>>, k - 1)))

FRoundLen(sign, M, E, L) ==
    IF L = 0 \/ sign = 0 THEN FZero
    ELSE IF L <= MantBits
    THEN [s |-> sign, m |-> BNShl(M, MantBits - L), e |-> E - (MantBits - L)]
    ELSE FRoundCut(sign, M, E, L - MantBits, BNShr(M, L - MantBits))

(* sign * M * 2^E rounded to 53 bits, to nearest, ties to even *)
FRound(sign, M, E) == FRoundLen(sign, M, E, BNBitLen(M))

FFromInt(i) ==
    IF i = 0 THEN FZero
    ELSE IF i < 0 THEN FRound(-1, BNFromInt(0 - i), 0)
    ELSE FRound(1, BNFromInt(i), 0)

FNeg(x) == [x EXCEPT !.s = 0 - x.s]

(* sx * X + sy * Y, both scaled by 2^e0; c compares X with Y *)
FAddSigned(sx, X, sy, Y, e0, c) ==
    FRound(IF sx = sy THEN sx ELSE c * sx,
           IF sx = sy THEN BNAdd(X, Y) ELSE IF c >= 0 THEN BNSub(X, Y) ELSE BNSub(Y, X),
           e0)

FAddMag(sx, X, sy, Y, e0) == FAddSigned(sx, X, sy, Y, e0, BNCmp(X, Y))

FAddAt(x, y, e0) ==
    FAddMag(x.s, BNShl(x.m, x.e - e0), y.s, BNShl(y.m, y.e - e0), e0)

FAdd(x, y) ==
    IF x.s = 0 THEN y
    ELSE IF y.s = 0 THEN x
    ELSE FAddAt(x, y, IF x.e < y.e THEN x.e ELSE y.e)

FSub(x, y) == FAdd(x, FNeg(y))

FMul(x, y) ==
    IF x.s = 0 \/ y.s = 0 THEN FZero
    ELSE FRound(x.s * y.s, BNMul(x.m, y.m), x.e + y.e)

(* the quotient d.q of x.m * 2^17 by n, one more bit, and a sticky bit *)
FDivQuot(x, d) ==
    FRound(x.s, BNAdd(BNShl(d.q, 1), IF d.r = 0 THEN <<>> ELSE <<1>>), x.e - 17 - 1)

(* x / float(n) for an integer 0 < n < 2^15: the quotient carries two      *)
(* bits beyond the mantissa and a sticky bit for the remainder             *)
FDivInt(x, n) ==
    IF x.s = 0 THEN FZero ELSE FDivQuot(x, BNDivSmall(BNShl(x.m, 17), n))

(* integer square root, digit by digit: bit is a power of 4 *)
SqrtStepAt(st, rb) ==
    IF BNCmp(st.num, rb) >= 0
    THEN [num |-> BNSub(st.num, rb), res |-> BNAdd(BNShr(st.res, 1), st.bit),
          bit |-> BNShr(st.bit, 2)]
    ELSE [num |-> st.num, res |-> BNShr(st.res, 1), bit |-> BNShr(st.bit, 2)]

(* one digit of the root; nothing once bit has run out *)
SqrtStep(st) == IF st.bit = <<>> THEN st ELSE SqrtStepAt(st, BNAdd(st.res, st.bit))

SqrtStep4(st) == SqrtStep(SqrtStep(SqrtStep(SqrtStep(st))))

RECURSIVE BNSqrtLoop(_)
BNSqrtLoop(st) ==
    IF st.bit = <<>> THEN [root |-> st.res, rem |-> st.num]
    ELSE BNSqrtLoop(SqrtStep4(SqrtStep4(st)))

BNSqrtTop(L) == IF L % 2 = 0 THEN L - 2 ELSE L - 1

BNSqrt(a) ==
    IF a = <<>> THEN [root |-> <<>>, rem |-> <<>>]
    ELSE BNSqrtLoop([num |-> a, res |-> <<>>, bit |-> BNShl(<<1>>, BNSqrtTop(BNBitLen(a)))])

(* the root r.root of x.m * 2^t, one more bit, and a sticky bit *)
FSqrtRoot(e, r) ==
    FRound(1, BNAdd(BNShl(r.root, 1), IF r.rem = <<>> THEN <<>> ELSE <<1>>), e)

FSqrtAt(x, t) == FSqrtRoot(((x.e - t) \div 2) - 1, BNSqrt(BNShl(x.m, t)))

(* sqrt(x) for x >= 0 *)
FSqrt(x) ==
    IF x.s = 0 THEN FZero
    ELSE FSqrtAt(x, IF (x.e - 57) % 2 = 0 THEN 57 ELSE 58)

(* x > y *)
FGt(x, y) ==
    IF x.s # y.s THEN x.s > y.s
    ELSE IF x.s = 0 THEN FALSE
    ELSE IF x.e # y.e THEN (x.e > y.e) = (x.s = 1)
    ELSE BNCmp(x.m, y.m) = x.s

FGe(x, y) == ~FGt(y, x)

----------------------------------------------------------------------------
(* numpy reductions over a float64 array, as anomalies.py uses them *)

RECURSIVE SumFrom(_, _, _)
SumFrom(a, i, acc) ==
    IF i > Len(a) THEN acc ELSE SumFrom(a, i + 1, FAdd(acc, a[i]))

(* the running sum r[j] of the unrolled loop: a[j] + a[8+j] + a[16+j] ... *)
(* over the full blocks of eight                                          *)
RECURSIVE LaneSum(_, _, _, _)
LaneSum(a, j, b, acc) ==
    IF 8 * b + j > 8 * (Len(a) \div 8) THEN acc
    ELSE LaneSum(a, j, b + 1, FAdd(acc, a[8 * b + j]))

(* the eight lane sums combined as a tree: ((r1+r2)+(r3+r4))+((r5+r6)+(r7+r8)) *)
RECURSIVE PairTree(_)
PairTree(r) ==
    IF Len(r) = 1 THEN r[1]
    ELSE PairTree([i \in 1..(Len(r) \div 2) |-> FAdd(r[2 * i - 1], r[2 * i])])

(* numpy's pairwise summation for n <= 128: sequential below 8 elements,   *)
(* else eight lanes combined as a tree, then the n % 8 rest in order       *)
np_sum(a) ==
    SumFrom(a,
            IF Len(a) < 8 THEN 1 ELSE 8 * (Len(a) \div 8) + 1,
            IF Len(a) < 8 THEN FZero
            ELSE PairTree([j \in 1..8 |-> LaneSum(a, j, 1, a[j])]))

(* np.mean of an integer array: the sum in float64, divided by the count *)
np_mean(xs) ==
    FDivInt(np_sum([i \in 1..Len(xs) |-> FFromInt(xs[i])]), Len(xs))

FSquare(x) == FMul(x, x)

(* the squared deviations abs(x - mean)^2 *)
SqDev(xs, mean) == [i \in 1..Len(xs) |-> FSquare(FSub(FFromInt(xs[i]), mean))]

(* np.std (ddof=0): sqrt(mean(abs(x - mean(x))^2)) *)
np_std(xs) == FSqrt(FDivInt(np_sum(SqDev(xs, np_mean(xs))), Len(xs)))

SeqMax(xs) ==
    CHOOSE m \in {xs[i] : i \in 1..Len(xs)} : \A i \in 1..Len(xs) : xs[i] <= m

----------------------------------------------------------------------------
(* anomalies.py *)

(* variants of the thresholds: one event fewer, one deviation fewer *)
MIN_EVENTS_four == 5 - 1
LATENCY_STD_MULTIPLIER_two == 3 - 1

MIN_EVENTS_FOR_ANALYSIS == 5
LATENCY_STD_MULTIPLIER == 3
MAX_ERROR_RATE == FDivInt(FFromInt(1), 10)      \* the float literal 0.10

CRITICAL == "CRITICAL: Latency spike detected"
WARNING == "WARNING: High error rate detected"
ERROR == "ERROR: Anomaly detection failed"

(* an object without the LogEvent attributes (the tests' InvalidEvent) *)
InvalidEvent == [class |-> "InvalidEvent"]

HasAttr(obj, name) == name \in DOMAIN obj

Latencies(evs) == [i \in 1..Len(evs) |-> evs[i].latency_ms]

(* latencies.max() > mean_latency + (LATENCY_STD_MULTIPLIER * std_latency) *)
LatencySpike(lats) ==
    FGt(FFromInt(SeqMax(lats)),
        FAdd(np_mean(lats), FMul(FFromInt(LATENCY_STD_MULTIPLIER), np_std(lats))))

(* metrics.get("error_rate", 0.0) *)
FloatRate(k, n) == [kind |-> "float", num |-> k, den |-> n]

GetErrorRate(metrics) ==
    IF HasAttr(metrics, "error_rate") THEN metrics.error_rate ELSE FloatRate(0, 1)

(* the float value of total_errors / total_requests *)
RateValue(rate) == FDivInt(FFromInt(rate.num), rate.den)

(* variant: ">=" in place of ">" *)
ErrorRateTrips_ge(rate) == FGe(RateValue(rate), MAX_ERROR_RATE)

(* error_rate > MAX_ERROR_RATE *)
ErrorRateTrips(rate) == FGt(RateValue(rate), MAX_ERROR_RATE)

(* lines 48-51 of the try block, after the latency check left `first` *)
RateCheck(first, error_rate) ==
    IF error_rate.kind # "float"
    THEN [anomalies |-> first, exc |-> "TypeError"]     \* str > float
    ELSE [anomalies |-> IF ErrorRateTrips(error_rate) THEN Append(first, WARNING) ELSE first,
          exc |-> "none"]

AfterLatencyCheck(first, metrics) ==
    IF metrics.kind # "dict"
    THEN [anomalies |-> first, exc |-> "AttributeError"]    \* None has no .get
    ELSE RateCheck(first, GetErrorRate(metrics))

(* variant: "elif" in place of the second "if" *)
AfterLatencyCheck_elif(first, metrics) ==
    IF first # <<>> THEN [anomalies |-> first, exc |-> "none"]
    ELSE AfterLatencyCheck(first, metrics)

TryBlock_elif(lats, metrics) ==
    AfterLatencyCheck_elif(IF LatencySpike(lats) THEN <<CRITICAL>> ELSE <<>>, metrics)

(* the body of the try block once the latencies are read: the signals      *)
(* appended, and the exception that ended the block, if any                *)
TryBlock(lats, metrics) ==
    AfterLatencyCheck(IF LatencySpike(lats) THEN <<CRITICAL>> ELSE <<>>, metrics)

(* the except clauses and the return, for the outcome r of the try block *)
Handlers(r) ==
    CASE r.exc = "none" -> [raised |-> "none", anomalies |-> r.anomalies]
      [] r.exc = "AttributeError" -> [raised |-> "ValueError", anomalies |-> <<>>]
      [] OTHER -> [raised |-> "none", anomalies |-> Append(r.anomalies, ERROR)]

(* detect_anomalies(events, metrics): what it raises and what it returns *)
detect_anomalies(evs, metrics) ==
    IF Len(evs) < MIN_EVENTS_FOR_ANALYSIS
    THEN [raised |-> "none", anomalies |-> <<>>]
    ELSE IF \E i \in 1..Len(evs) : ~HasAttr(evs[i], "latency_ms")
    THEN [raised |-> "ValueError", anomalies |-> <<>>]
    ELSE Handlers(TryBlock(Latencies(evs), metrics))

----------------------------------------------------------------------------
(* Detector inputs: n events, the last k of them with latency a + d and    *)
(* the others with latency a (or the ramp a, a+1, ...), the first j marked *)
(* as errors; the metrics computed from them, or (on the lists based at    *)
(* 100) a degenerate argument.                                             *)

DetSizes == {0, 4, 5, 9, 10, 11, 20}
DetBases == {1, 90, 100}
DetDeltas == {1, 10, 27, 900}

DetEvent(lat, err) ==
    [timestamp |-> Aware(0), user_id |-> "user123", latency_ms |-> lat,
     tokens_used |-> 50, is_error |-> err]

Outliers(n, a, k, d, j) ==
    [i \in 1..n |-> DetEvent(IF i > n - k THEN a + d ELSE a, i <= j)]

Ramp(n, a, j) == [i \in 1..n |-> DetEvent(a + i - 1, i <= j)]

DetErrCounts(n) ==
    {j \in {0, n \div 10, (n \div 10) + 1, 6} : j <= n /\ (j = 6 => n = 20)}

TotalErrors(evs) == Cardinality({i \in 1..Len(evs) : evs[i].is_error})

(* the error_rate entry compute_metrics (and the tests' make_metrics) puts *)
(* in the metrics of these events                                          *)
MetricsOf(evs) ==
    [kind |-> "dict", error_rate |-> FloatRate(TotalErrors(evs), Len(evs))]

InitDetect ==
    /\ events = <<>>
    /\ now = 0
    /\ HistIdle
    /\ ConcIdle
    /\ ExtIdle
    /\ \E n \in DetSizes, a \in DetBases, j \in 0..6, shape \in {"outliers", "ramp"} :
        \E k \in 0..MaxOutliers, d \in DetDeltas, bad \in BOOLEAN,
           mk \in {"computed", "empty", "bad_rate", "none"} :
            /\ j \in DetErrCounts(n)
            /\ k <= n
            /\ (k = 0 \/ shape = "ramp") => d = 1
            /\ shape = "ramp" => k = 0
            /\ mk # "computed" => (j = 0 /\ a = 100)
            /\ bad => (n > 0 /\ k = 0 /\ j = 0 /\ a = 100 /\ shape = "outliers")
            /\ LET good == IF shape = "ramp" THEN Ramp(n, a, j) ELSE Outliers(n, a, k, d, j)
                   evs == IF bad THEN [good EXCEPT ![1] = InvalidEvent] ELSE good
                   metrics ==
                       CASE mk = "computed" /\ n > 0 /\ ~bad -> MetricsOf(evs)
                         [] mk = "computed" -> [kind |-> "dict"]
                         [] mk = "empty" -> [kind |-> "dict"]
                         [] mk = "bad_rate" -> [kind |-> "dict", error_rate |-> [kind |-> "str"]]
                         [] OTHER -> [kind |-> "none"]
               IN  det = [pc |-> "call", events |-> evs, metrics |-> metrics]

AfterCall(d, r) ==
    [pc |-> "returned", events |-> d.events, metrics |-> d.metrics,
     raised |-> r.raised, anomalies |-> r.anomalies]

Detect ==
    /\ det.pc = "call"
    /\ det' = AfterCall(det, detect_anomalies(det.events, det.metrics))
    /\ UNCHANGED <<events, now, histVars, concVars, extVars>>

NextDetect == Detect

SpecDetect == InitDetect /\ [][NextDetect]_vars

----------------------------------------------------------------------------
(* The claims on detect_anomalies. The threshold rule in exact arithmetic, *)
(* over the integers n*max - S and n*Q - S^2 (S the sum, Q the sum of      *)
(* squares): max - mean > 3*std  <=>  (n*max - S)^2 > 9*(n*Q - S^2).       *)

RECURSIVE SeqSum(_)
SeqSum(xs) == IF xs = <<>> THEN 0 ELSE Head(xs) + SeqSum(Tail(xs))

Excess(lats) == (Len(lats) * SeqMax(lats) - SeqSum(lats)) ^ 2

NineVar(lats) ==
    9 * (Len(lats) * SeqSum([i \in 1..Len(lats) |-> lats[i] * lats[i]])
         - SeqSum(lats) ^ 2)

MaxExceeds(lats) == Excess(lats) > NineVar(lats)
MaxBelow(lats) == Excess(lats) < NineVar(lats)

Returned == det.pc = "returned"

WellFormed(evs) == \A i \in 1..Len(evs) : HasAttr(evs[i], "latency_ms")

Has(list, x) == \E i \in 1..Len(list) : list[i] = x

Clustered(evs) ==
    /\ Len(evs) = 20
    /\ WellFormed(evs)
    /\ \A i \in 1..Len(evs) :
        evs[i].latency_ms >= 90 /\ evs[i].latency_ms <= 110 /\ ~evs[i].is_error

(* C6 as stated. For any 20 events whose latencies all lie within 90..110  *)
(* and none of which is an error, detect_anomalies returns the empty list. *)
C6_ClusteredReturnsEmpty ==
    (Returned /\ Clustered(det.events) /\ det.metrics = MetricsOf(det.events)) =>
        (det.raised = "none" /\ det.anomalies = <<>>)

(* C6 amended. For such 20 events detect_anomalies raises nothing, never   *)
(* returns the error-rate signal, returns the empty list whenever the      *)
(* maximum latency is below mean + 3 x standard deviation, and returns     *)
(* exactly the latency-spike signal whenever the maximum is above it.      *)
C6_ClusteredNoSpikeBelowThreshold ==
    (Returned /\ Clustered(det.events) /\ det.metrics = MetricsOf(det.events)) =>
        /\ det.raised = "none"
        /\ det.anomalies \in {<<>>, <<CRITICAL>>}
        /\ MaxBelow(Latencies(det.events)) => det.anomalies = <<>>
        /\ MaxExceeds(Latencies(det.events)) => det.anomalies = <<CRITICAL>>

(* 20 error-free events spread over 90..110, below the threshold: nothing returned *)
C6_Witness ==
    /\ Returned /\ Clustered(det.events) /\ det.metrics = MetricsOf(det.events)
    /\ SeqMax(Latencies(det.events)) > det.events[1].latency_ms
    /\ MaxBelow(Latencies(det.events))
    /\ det.anomalies = <<>>

(* C7. Minimum-sample guard: for every event list of fewer than 5 events   *)
(* and every metrics argument, detect_anomalies returns the empty list and *)
(* raises nothing.                                                         *)
C7_MinSampleGuard ==
    (Returned /\ Len(det.events) < 5) =>
        (det.raised = "none" /\ det.anomalies = <<>>)

(* four events, one of them malformed, with a metrics argument that is not a mapping *)
C7_Witness ==
    /\ Returned
    /\ Len(det.events) = 4
    /\ ~WellFormed(det.events)
    /\ det.metrics.kind = "none"
    /\ det.anomalies = <<>>

(* C8. Latency-spike rule: for at least 5 well-formed events the           *)
(* latency-spike signal is in the output if and only if the maximum        *)
(* latency is strictly greater than mean + 3 x population standard         *)
(* deviation of the latencies.                                             *)
C8_SpikeIffMaxExceeds ==
    (Returned /\ Len(det.events) >= 5 /\ WellFormed(det.events) /\ det.raised = "none") =>
        (Has(det.anomalies, CRITICAL) <=> MaxExceeds(Latencies(det.events)))

NumericRate(metrics) ==
    metrics.kind = "dict" /\ GetErrorRate(metrics).kind = "float"

(* C9. Error-rate rule: for at least 5 well-formed events the error-rate   *)
(* signal is in the output if and only if metrics.error_rate is strictly   *)
(* greater than 0.10, i.e. 10 x errors > requests.                         *)
C9_ErrorRateRule ==
    (Returned /\ Len(det.events) >= 5 /\ WellFormed(det.events) /\ NumericRate(det.metrics)) =>
        (Has(det.anomalies, WARNING) <=>
            10 * GetErrorRate(det.metrics).num > GetErrorRate(det.metrics).den)

(* 2 errors in 20 events: the rate is exactly 0.10 and the signal is absent *)
C9_Witness ==
    /\ Returned /\ Len(det.events) = 20 /\ WellFormed(det.events)
    /\ NumericRate(det.metrics)
    /\ GetErrorRate(det.metrics).num = 2 /\ GetErrorRate(det.metrics).den = 20
    /\ ~Has(det.anomalies, WARNING)

Signals(spike, rate) ==
    (IF spike THEN <<CRITICAL>> ELSE <<>>) \o (IF rate THEN <<WARNING>> ELSE <<>>)

----------------------------------------------------------------------------
(* np.percentile(a, q) with the default (linear) method, in float64 *)

RECURSIVE BNToInt(_)
BNToInt(a) == IF a = <<>> THEN 0 ELSE Head(a) + Base * BNToInt(Tail(a))

(* floor(x) as an integer, for x >= 0 *)
FFloor(x) ==
    IF x.s = 0 THEN 0
    ELSE IF x.e >= 0 THEN BNToInt(BNShl(x.m, x.e))
    ELSE BNToInt(BNShr(x.m, 0 - x.e))

RECURSIVE Insert(_, _)
Insert(x, sorted) ==
    IF sorted = <<>> THEN <<x>>
    ELSE IF x <= Head(sorted) THEN <<x>> \o sorted
    ELSE <<Head(sorted)>> \o Insert(x, Tail(sorted))

RECURSIVE SortAsc(_)
SortAsc(xs) == IF xs = <<>> THEN xs ELSE Insert(Head(xs), SortAsc(Tail(xs)))

FHalf == FDivInt(FFromInt(1), 2)

(* _lerp(a, b, t): a + (b - a) * t, and b - (b - a) * (1 - t) where t >= 0.5 *)
lerp(a, b, t) ==
    IF FGe(t, FHalf)
    THEN FSub(FFromInt(b), FMul(FFromInt(b - a), FSub(FFromInt(1), t)))
    ELSE FAdd(FFromInt(a), FMul(FFromInt(b - a), t))

(* previous = arr[floor(h)], next = arr[floor(h) + 1], gamma = h - floor(h) *)
PercentileBetween(arr, h, previous_index) ==
    lerp(arr[previous_index + 1], arr[previous_index + 2],
         FSub(h, FFromInt(previous_index)))

(* arr sorted, h the virtual index; at or above the last index both        *)
(* neighbours are the last element                                         *)
PercentileAt(arr, h) ==
    IF FGe(h, FFromInt(Len(arr) - 1)) THEN FFromInt(arr[Len(arr)])
    ELSE PercentileBetween(arr, h, FFloor(h))

(* virtual index (n - 1) * (q / 100) *)
np_percentile(xs, q) ==
    PercentileAt(SortAsc(xs), FMul(FFromInt(Len(xs) - 1), FDivInt(FFromInt(q), 100)))

----------------------------------------------------------------------------
(* metrics.py *)

TOKEN_COST_PER_1K == FDivInt(FFromInt(2), 1000)     \* the float literal 0.002

DEFAULT_WINDOW_MINUTES == 2     \* compute_metrics(events, window_minutes: int = 2)

MetricsAttrs == {"latency_ms", "is_error", "tokens_used", "user_id"}

RECURSIVE IntSumFrom(_, _, _)
IntSumFrom(xs, i, acc) ==
    IF i > Len(xs) THEN acc ELSE IntSumFrom(xs, i + 1, acc + xs[i])

(* variant: "= 1" in place of "+= 1", a key never counts past one *)
CountUser_assign(counts, u) ==
    IF u \in DOMAIN counts THEN [counts EXCEPT ![u] = 1] ELSE counts @@ (u :> 1)

(* per_user_requests[event.user_id] += 1 on a defaultdict(int) *)
CountUser(counts, u) ==
    IF u \in DOMAIN counts THEN [counts EXCEPT ![u] = @ + 1] ELSE counts @@ (u :> 1)

RECURSIVE PerUserFrom(_, _, _)
PerUserFrom(evs, i, counts) ==
    IF i > Len(evs) THEN counts
    ELSE PerUserFrom(evs, i + 1, CountUser(counts, evs[i].user_id))

NoCounts == [u \in {} |-> 0]

(* variant: rounding to the nearest integer in place of flooring *)
FloorDiv_nearest(a, b) == (2 * a + b) \div (2 * b)

(* a // b on Python ints, b > 0 *)
FloorDiv(a, b) == a \div b

EmptyDict == [kind |-> "dict"]

(* the dict of lines 60-70 *)
MetricsDict(latencies_ms, total_requests, total_errors, total_tokens, per_user, window_minutes) ==
    [kind |-> "dict",
     requests_per_min |-> FloorDiv(total_requests, window_minutes),
     avg_latency |-> np_mean(latencies_ms),
     p50_latency |-> np_percentile(latencies_ms, 50),
     p95_latency |-> np_percentile(latencies_ms, 95),
     p99_latency |-> np_percentile(latencies_ms, 99),
     error_rate |-> FloatRate(total_errors, total_requests),
     tokens_per_min |-> FloorDiv(total_tokens, window_minutes),
     estimated_cost_usd |->
         FMul(FDivInt(FFromInt(total_tokens), 1000), TOKEN_COST_PER_1K),
     per_user_requests |-> per_user]

MetricsTry(evs, window_minutes) ==
    IF \E i \in 1..Len(evs) : \E name \in MetricsAttrs : ~HasAttr(evs[i], name)
    THEN [raised |-> "ValueError", msg |-> "Invalid log event structure",
          value |-> EmptyDict]
    ELSE [raised |-> "none", msg |-> "",
          value |-> MetricsDict([i \in 1..Len(evs) |-> evs[i].latency_ms],
                                Len(evs),
                                Cardinality({i \in 1..Len(evs) : evs[i].is_error}),
                                IntSumFrom([i \in 1..Len(evs) |-> evs[i].tokens_used], 1, 0),
                                PerUserFrom(evs, 1, NoCounts),
                                window_minutes)]

(* variant: the window_minutes guard ahead of the empty-list guard *)
compute_metrics_window_first(evs, window_minutes) ==
    IF window_minutes <= 0
    THEN [raised |-> "ValueError", msg |-> "window_minutes must be a positive integer",
          value |-> EmptyDict]
    ELSE IF evs = <<>> THEN [raised |-> "none", msg |-> "", value |-> EmptyDict]
    ELSE MetricsTry(evs, window_minutes)

(* variant: "<" in place of "<=" in the window_minutes guard; with         *)
(* window_minutes = 0 the division raises ZeroDivisionError, re-raised as  *)
(* RuntimeError                                                            *)
compute_metrics_lt0(evs, window_minutes) ==
    IF evs = <<>> THEN [raised |-> "none", msg |-> "", value |-> EmptyDict]
    ELSE IF window_minutes < 0
    THEN [raised |-> "ValueError", msg |-> "window_minutes must be a positive integer",
          value |-> EmptyDict]
    ELSE IF window_minutes = 0 /\ \A i \in 1..Len(evs) : MetricsAttrs \subseteq DOMAIN evs[i]
    THEN [raised |-> "RuntimeError", msg |-> "Metric computation failed",
          value |-> EmptyDict]
    ELSE MetricsTry(evs, IF window_minutes = 0 THEN 1 ELSE window_minutes)

(* compute_metrics(events, window_minutes): what it raises and what it returns *)
compute_metrics(evs, window_minutes) ==
    IF evs = <<>> THEN [raised |-> "none", msg |-> "", value |-> EmptyDict]
    ELSE IF window_minutes <= 0
    THEN [raised |-> "ValueError", msg |-> "window_minutes must be a positive integer",
          value |-> EmptyDict]
    ELSE MetricsTry(evs, window_minutes)

----------------------------------------------------------------------------
(* Calls of compute_metrics: n events with latencies a, a + d, ... in      *)
(* rising or falling order, user ids taken in turn from the first m names, *)
(* the same token count on each, the first j marked as errors; one event   *)
(* may be an object without attributes or a record without its timestamp.  *)

MetSizes == {0, 1, 2, 3, 4, 10}
MetWindows == {-5, 0, 1, 2, 5, 60}
UserNames == <<"user1", "user2", "user3">>

MetEvent(lat, tok, err, uid) ==
    [timestamp |-> Aware(0), user_id |-> uid, latency_ms |-> lat,
     tokens_used |-> tok, is_error |-> err]

(* an object with every attribute of a LogEvent but timestamp *)
NoTimestampEvent(lat, tok, err, uid) ==
    [user_id |-> uid, latency_ms |-> lat, tokens_used |-> tok, is_error |-> err]

MetEvents(n, a, d, rising, m, tok, j) ==
    [i \in 1..n |->
        MetEvent(a + d * (IF rising THEN i - 1 ELSE n - i), tok, i <= j,
                 UserNames[((i - 1) % m) + 1])]

Malform(evs, how) ==
    IF how = "none" \/ evs = <<>> THEN evs
    ELSE IF how = "InvalidEvent" THEN [evs EXCEPT ![Len(evs)] = InvalidEvent]
    ELSE [evs EXCEPT ![Len(evs)] =
             NoTimestampEvent(@.latency_ms, @.tokens_used, @.is_error, @.user_id)]

InitMetrics ==
    /\ events = <<>>
    /\ now = 0
    /\ HistIdle
    /\ ConcIdle
    /\ DetIdle
    /\ resp = NoResp
    /\ ali = [heap |-> <<>>, deque |-> <<>>, list |-> <<>>]
    /\ AppIdle
    /\ \E n \in MetSizes, a \in {100, 200}, d \in {1, 100}, rising \in BOOLEAN :
        \E m \in {1, 3}, tok \in {0, 100}, j \in {0, 1}, w \in MetWindows,
           how \in {"none", "InvalidEvent", "no_timestamp"} :
            /\ (d = 1) => rising
            /\ (how # "none") => (a = 100 /\ d = 100 /\ rising /\ m = 1 /\ tok = 100 /\ j = 0)
            /\ met = [pc |-> "call",
                      events |-> Malform(MetEvents(n, a, d, rising, m, tok, j), how),
                      window_minutes |-> w]

AfterCompute(c, r) ==
    [pc |-> "returned", events |-> c.events, window_minutes |-> c.window_minutes,
     raised |-> r.raised, msg |-> r.msg, value |-> r.value]

Compute ==
    /\ met.pc = "call"
    /\ met' = AfterCompute(met, compute_metrics(met.events, met.window_minutes))
    /\ UNCHANGED <<winVars, concVars, detVars, resp, ali, appVars>>

NextMetrics == Compute

SpecMetrics == InitMetrics /\ [][NextMetrics]_vars

Computed == met.pc = "returned"

LogEventAttrs == {"timestamp", "user_id", "latency_ms", "tokens_used", "is_error"}

LacksRequired(evs) ==
    \E i \in 1..Len(evs) : \E name \in LogEventAttrs : ~HasAttr(evs[i], name)

----------------------------------------------------------------------------
(* The claims on compute_metrics and on the failure paths *)

(* C11. Reject-the-batch policy: if any event of a non-empty list passed   *)
(* to compute_metrics lacks a required attribute of a LogEvent, the call   *)
(* fails with the validation error and returns no metrics.                 *)
C11_MalformedBatchRejected ==
    (Computed /\ met.events # <<>> /\ LacksRequired(met.events)) =>
        (met.raised = "ValueError" /\ met.value = EmptyDict)

(* C12. Degraded-but-available path: for at least 5 well-formed events,    *)
(* when reading or comparing the metrics argument fails, detect_anomalies  *)
(* does not raise; it returns the signals already determined followed by   *)
(* exactly one synthetic ERROR entry.                                      *)
C12_DegradedNotRaised ==
    (Returned /\ Len(det.events) >= 5 /\ WellFormed(det.events)
        /\ ~NumericRate(det.metrics)) =>
        /\ det.raised = "none"
        /\ det.anomalies = Signals(LatencySpike(Latencies(det.events)), FALSE) \o <<ERROR>>

WindowError ==
    /\ met.raised = "ValueError"
    /\ met.msg = "window_minutes must be a positive integer"
    /\ met.value = EmptyDict

(* C13 as stated. Non-positive window is rejected: for every events        *)
(* argument, compute_metrics with window_minutes <= 0 fails with the       *)
(* invalid-argument error and returns no result.                           *)
C13_NonPositiveWindowRejected ==
    (Computed /\ met.window_minutes <= 0) => WindowError

(* C13 amended. For every non-empty events list, well-formed or not,       *)
(* compute_metrics with window_minutes <= 0 fails with the invalid-        *)
(* argument error and returns no result; for the empty list it returns     *)
(* the empty result instead.                                               *)
C13_NonPositiveWindowRejectedNonEmpty ==
    (Computed /\ met.window_minutes <= 0) =>
        IF met.events = <<>>
        THEN met.raised = "none" /\ met.value = EmptyDict
        ELSE WindowError

(* window_minutes = 0 with a list whose last element has no attributes:    *)
(* the window error, not the structure error                               *)
C13_Witness ==
    /\ Computed
    /\ met.window_minutes = 0
    /\ met.events # <<>>
    /\ LacksRequired(met.events)
    /\ WindowError

(* C14. Empty input is not an error: for every window_minutes value,       *)
(* compute_metrics with an empty events list returns the empty result and  *)
(* raises nothing.                                                         *)
C14_EmptyInputReturnsEmpty ==
    (Computed /\ met.events = <<>>) =>
        (met.raised = "none" /\ met.value = EmptyDict)

(* the empty list with a negative window_minutes: the empty result *)
C14_Witness ==
    /\ Computed
    /\ met.events = <<>>
    /\ met.window_minutes < 0
    /\ met.raised = "none"
    /\ met.value = EmptyDict

(* the float f is exactly the rational num / den (num >= 0, 0 < den < Base) *)
FEqRat(f, num, den) ==
    IF num = 0 THEN f.m = <<>>
    ELSE /\ f.s = 1
         /\ IF f.e >= 0
            THEN BNMulSmall(BNShl(f.m, f.e), den) = BNFromInt(num)
            ELSE BNMulSmall(f.m, den) = BNShl(BNFromInt(num), 0 - f.e)

(* 100 times the continuous percentile q of the sorted list x, as an integer *)
ExactPercentile100(x, q) ==
    LET k == (q * (Len(x) - 1)) \div 100
        r == (q * (Len(x) - 1)) % 100
    IN  IF r = 0 THEN 100 * x[k + 1]
        ELSE 100 * x[k + 1] + r * (x[k + 2] - x[k + 1])

MetLatencies == [i \in 1..Len(met.events) |-> met.events[i].latency_ms]

ComputedMetrics ==
    /\ Computed
    /\ met.events # <<>>
    /\ ~LacksRequired(met.events)
    /\ met.window_minutes > 0

(* C16. Percentiles by linear interpolation: for every non-empty list of   *)
(* well-formed events, p50_latency, p95_latency and p99_latency equal the  *)
(* continuous percentile x[k] + (h - k) * (x[k+1] - x[k]) of the sorted    *)
(* latencies, h = (q/100) * (n - 1), k = floor(h); for a single event with *)
(* latency L, avg = p50 = p95 = p99 = L.                                   *)
C16_PercentilesLinearInterpolation ==
    ComputedMetrics =>
        /\ met.raised = "none"
        /\ FEqRat(met.value.p50_latency, ExactPercentile100(SortAsc(MetLatencies), 50), 100)
        /\ FEqRat(met.value.p95_latency, ExactPercentile100(SortAsc(MetLatencies), 95), 100)
        /\ FEqRat(met.value.p99_latency, ExactPercentile100(SortAsc(MetLatencies), 99), 100)
        /\ (Len(met.events) = 1) =>
              /\ met.value.avg_latency = FFromInt(MetLatencies[1])
              /\ met.value.p50_latency = FFromInt(MetLatencies[1])
              /\ met.value.p95_latency = FFromInt(MetLatencies[1])
              /\ met.value.p99_latency = FFromInt(MetLatencies[1])

MetTokens == [i \in 1..Len(met.events) |-> met.events[i].tokens_used]

(* q is the floor of total / minutes *)
IsFloorOf(q, total, minutes) ==
    q * minutes <= total /\ total < (q + 1) * minutes

(* C17. Per-minute rates use integer floor division: for every non-empty   *)
(* list of well-formed events and every window_minutes > 0,                *)
(* requests_per_min is the floor of count(events) / window_minutes and     *)
(* tokens_per_min the floor of sum(tokens_used) / window_minutes; with     *)
(* fewer events than minutes requests_per_min is 0.                        *)
C17_RatesFloorDivision ==
    ComputedMetrics =>
        /\ met.raised = "none"
        /\ IsFloorOf(met.value.requests_per_min, Len(met.events), met.window_minutes)
        /\ IsFloorOf(met.value.tokens_per_min, SeqSum(MetTokens), met.window_minutes)
        /\ (Len(met.events) < met.window_minutes) => met.value.requests_per_min = 0

(* four events of 100 tokens over a 5-minute window: 0 requests and 80     *)
(* tokens per minute                                                       *)
C17_Witness ==
    /\ ComputedMetrics
    /\ Len(met.events) = 4
    /\ met.window_minutes = 5
    /\ SeqSum(MetTokens) = 400
    /\ met.value.requests_per_min = 0
    /\ met.value.tokens_per_min = 80

MetUsers == {met.events[i].user_id : i \in 1..Len(met.events)}

EventsOf(u) == {i \in 1..Len(met.events) : met.events[i].user_id = u}

RECURSIVE SumOver(_, _)
SumOver(f, keys) ==
    IF keys = {} THEN 0
    ELSE LET k == CHOOSE x \in keys : TRUE IN f[k] + SumOver(f, keys \ {k})

(* C18. Per-subject counts: for every non-empty list of well-formed        *)
(* events, the keys of per_user_requests are exactly the user_ids that     *)
(* occur in the list, each maps to the number of events of that user, and  *)
(* the values sum to the number of events.                                 *)
C18_PerUserCounts ==
    ComputedMetrics =>
        /\ met.raised = "none"
        /\ DOMAIN met.value.per_user_requests = MetUsers
        /\ \A u \in MetUsers : met.value.per_user_requests[u] = Cardinality(EventsOf(u))
        /\ SumOver(met.value.per_user_requests, DOMAIN met.value.per_user_requests)
              = Len(met.events)

(* four events of three users, the first user twice *)
C18_Witness ==
    /\ ComputedMetrics
    /\ Len(met.events) = 4
    /\ Cardinality(MetUsers) = 3
    /\ met.value.per_user_requests["user1"] = 2
    /\ met.value.per_user_requests["user2"] = 1
    /\ met.value.per_user_requests["user3"] = 1

----------------------------------------------------------------------------
(* main.py get_metrics: get_events, the empty check, compute_metrics with  *)
(* its default window_minutes, detect_anomalies, MetricsResponse, and the  *)
(* mapping of what was raised to a status.                                 *)

MetricsFields ==
    {"requests_per_min", "avg_latency", "p50_latency", "p95_latency", "p99_latency",
     "error_rate", "tokens_per_min", "estimated_cost_usd", "per_user_requests"}

(* the MetricsResponse built from the metrics dict and the anomalies:     *)
(* every field is required, a missing one raises ValidationError, a       *)
(* ValueError                                                              *)
MetricsResponse(metrics, anomalies) ==
    IF MetricsFields \subseteq DOMAIN metrics
    THEN [status |-> 200, metrics |-> metrics, anomalies |-> anomalies]
    ELSE [status |-> 400]

RespondAfterDetect(metrics, d) ==
    IF d.raised = "ValueError" THEN [status |-> 400]
    ELSE MetricsResponse(metrics, d.anomalies)

RespondAfterCompute(evs, c) ==
    IF c.raised = "ValueError" THEN [status |-> 400]
    ELSE IF c.raised # "none" THEN [status |-> 500]
    ELSE RespondAfterDetect(c.value, detect_anomalies(evs, c.value))

(* variant: without the "if not events" check *)
RespondTo_unchecked(g) ==
    IF g.status # "ok" THEN [status |-> 500]
    ELSE RespondAfterCompute(g.ret, compute_metrics(g.ret, DEFAULT_WINDOW_MINUTES))

(* the response to the outcome g of get_events *)
RespondTo(g) ==
    IF g.status # "ok" THEN [status |-> 500]
    ELSE IF g.ret = <<>> THEN [status |-> 404]
    ELSE RespondAfterCompute(g.ret, compute_metrics(g.ret, DEFAULT_WINDOW_MINUTES))

GetMetricsOutcome(g) == [events |-> g.events, ret |-> g.ret, resp |-> RespondTo(g)]

(* get_metrics: the deque it leaves, the list it read, the response *)
get_metrics(evs, t) == GetMetricsOutcome(get_events(evs, t))

GetMetricsStep(r) ==
    /\ events' = r.events
    /\ resp' = r.resp
    /\ last' = [op |-> "get_metrics", arg |-> NoArg,
                status |-> IF r.resp.status = 200 THEN "ok" ELSE "HTTPException",
                code |-> r.resp.status,
                before |-> events, ret |-> r.ret, time |-> now]

GetMetrics ==
    /\ GetMetricsStep(get_metrics(events, now))
    /\ prevSnap' = NoSnap
    /\ UNCHANGED <<now, mono, hiTs, concVars, detVars, met, ali, appVars>>

(* the service as main.py exposes it, ingest and query; resp is the        *)
(* response to the request handled last                                    *)
SvcMaxLen == 3      \* service: ingest is offered while the window holds fewer events
SvcMaxTime == 4     \* service: the clock stops advancing here

(* requests with a timestamp of any age or a naive one, and one that       *)
(* fails validation                                                        *)
ServiceArgs ==
    {MkEvent(ts, "alice", 120, 50) : ts \in OfferedTs} \cup {MkEvent(Aware(now), "", 120, 50)}

ServiceTick ==
    /\ now < SvcMaxTime
    /\ now' = now + 1
    /\ UNCHANGED <<events, last, prevSnap, mono, hiTs, resp>>
    /\ UNCHANGED <<concVars, detVars, met, ali, appVars>>

ServiceIngestStep(rec, r) ==
    /\ events' = r.events
    /\ resp' = [status |-> r.status]
    /\ last' = [op |-> "ingest_log", arg |-> rec,
                status |-> IF r.status = 201 THEN "ok" ELSE "HTTPException",
                code |-> r.status,
                before |-> events, ret |-> <<>>, time |-> now]

ServiceIngest ==
    /\ Len(events) < SvcMaxLen
    /\ \E rec \in ServiceArgs : ServiceIngestStep(rec, ingest_log(events, rec, now))
    /\ prevSnap' = NoSnap
    /\ UNCHANGED <<now, mono, hiTs, concVars, detVars, met, ali, appVars>>

NextService == ServiceTick \/ ServiceIngest \/ GetMetrics

SpecService == InitWindow /\ [][NextService]_vars

Queried == last.op = "get_metrics"

(* C15. Empty window is "no data yet": get_metrics answers 404 exactly     *)
(* when the window is empty after the eviction sweep; a 200 answer carries *)
(* the metrics of a non-empty window (its per-user counts sum to the       *)
(* number of live events, its average latency is positive), never zeroed   *)
(* placeholders; every other answer is a failure with status 400 or 500.   *)
C15_EmptyWindowIsNoData ==
    Queried =>
        /\ resp.status \in {200, 404, 400, 500}
        /\ (resp.status = 404) <=> (events = <<>>)
        /\ (resp.status = 200) =>
              /\ events # <<>>
              /\ last.ret = events
              /\ SumOver(resp.metrics.per_user_requests,
                         DOMAIN resp.metrics.per_user_requests) = Len(events)
              /\ FGt(resp.metrics.avg_latency, FZero)
              /\ resp.metrics = compute_metrics(events, DEFAULT_WINDOW_MINUTES).value

(* a query that found events before the sweep and none after it *)
C15_Witness ==
    /\ Queried
    /\ last.before # <<>>
    /\ events = <<>>
    /\ resp.status = 404

(* a query that failed in the sweep: status 500, the window not empty *)
C15_WitnessFailure ==
    /\ Queried
    /\ resp.status = 500
    /\ events # <<>>

----------------------------------------------------------------------------
(* Object identity in SlidingWindow: add appends the caller's object       *)
(* itself, get_events returns a new list of the same objects. The heap is  *)
(* the sequence of LogEvent objects the caller has created (it keeps a     *)
(* reference to each), the deque and the list last returned hold indices   *)
(* into it. LogEvent is a plain pydantic model: assigning to a field of an *)
(* instance changes it in place.                                           *)

AliasMaxObjs == 2   \* objects the caller creates
AliasMaxTime == 2   \* the clock stops advancing here

Deref(heap, ids) == [i \in 1..Len(ids) |-> heap[ids[i]]]

(* the deque of ids after the sweep left `kept` of its events *)
KeepLast(ids, kept) == SubSeq(ids, Len(ids) - Len(kept) + 1, Len(ids))

AliasAddStep(event) ==
    ali' = [heap |-> Append(ali.heap, event),
            deque |-> KeepLast(Append(ali.deque, Len(ali.heap) + 1),
                               add(Deref(ali.heap, ali.deque), event, now).events),
            list |-> ali.list]

(* e = make_event(k); window.add(e) *)
AliasAdd ==
    /\ Len(ali.heap) < AliasMaxObjs
    /\ \E k \in 0..MaxAgo : AliasAddStep(MkEvent(Aware(now - k), "user123", 120, 50))
    /\ UNCHANGED <<winVars, concVars, detVars, met, resp, appVars>>

(* events = window.get_events(): list(self.events) after the sweep *)
AliasGetEvents ==
    /\ ali' = [heap |-> ali.heap,
               deque |-> KeepLast(ali.deque, get_events(Deref(ali.heap, ali.deque), now).ret),
               list |-> KeepLast(ali.deque, get_events(Deref(ali.heap, ali.deque), now).ret)]
    /\ UNCHANGED <<winVars, concVars, detVars, met, resp, appVars>>

(* the caller assigns to a field of an object it holds: the one it passed  *)
(* to add, or an element of the list it got from get_events                *)
MutateEvent ==
    /\ \E i \in 1..Len(ali.heap) :
        \/ ali' = [ali EXCEPT !.heap[i].latency_ms = 1]
        \/ ali' = [ali EXCEPT !.heap[i].timestamp = Aware(now)]
    /\ UNCHANGED <<winVars, concVars, detVars, met, resp, appVars>>

(* the caller removes the first element of the list it got from get_events *)
MutateList ==
    /\ ali.list # <<>>
    /\ ali' = [ali EXCEPT !.list = Tail(@)]
    /\ UNCHANGED <<winVars, concVars, detVars, met, resp, appVars>>

AliasTick ==
    /\ now < AliasMaxTime
    /\ now' = now + 1
    /\ UNCHANGED <<events, histVars, concVars, detVars, extVars>>

NextAlias == AliasTick \/ AliasAdd \/ AliasGetEvents \/ MutateEvent \/ MutateList

SpecAlias == InitWindow /\ [][NextAlias]_vars

(* what a get_events call made now would return *)
WindowView == get_events(Deref(ali.heap, ali.deque), now).ret

(* C19. Events are immutable and unaliased once admitted: no action        *)
(* outside the store (assigning to a field of the object passed to add or  *)
(* of an object obtained from get_events, or changing the list obtained    *)
(* from get_events) changes what later get_events calls return.            *)
C19_NoExternalMutation ==
    [][(MutateEvent \/ MutateList) => WindowView' = WindowView]_vars

----------------------------------------------------------------------------
(* test_sliding_window.py: its own WINDOW_MINUTES, and the event of        *)
(* test_recent_event_not_evicted, make_event(WINDOW_MINUTES - 1)           *)

TEST_WINDOW_MINUTES == 3

RecentEventAdded ==
    /\ last.op = "add"
    /\ last.status = "ok"
    /\ last.before = <<>>
    /\ last.arg.timestamp = Aware(last.time - (TEST_WINDOW_MINUTES - 1))

(* C20. A recent event is not evicted: an event whose timestamp lies 2     *)
(* minutes before the moment it was created (the test's WINDOW_MINUTES - 1)*)
(* and that was added to an empty window is returned by the following      *)
(* get_events call as the single element of the window.                    *)
C20_RecentEventNotEvicted ==
    [][(RecentEventAdded /\ last'.op = "get_events") => last'.ret = <<last.arg>>]_vars

----------------------------------------------------------------------------
(* team-b-planner, backend/app/core/scheduler.py. Problems are records     *)
(* [id, topics, duration, difficulty]; a user profile is None or a dict    *)
(* whose maps are keyed by problem id (the code keys them by str(id)) and  *)
(* by topic. A problem's statistics hold attempts, successes, avg_time (0  *)
(* when absent) and last_seen as the number of days between that date and  *)
(* datetime.now() (-1 when absent). Floats are binary64.                   *)

F10(k) == FDivInt(FFromInt(k), 10)      \* the literal k/10

DictGet(d, k, default) == IF k \in DOMAIN d THEN d[k] ELSE default

EmptyMap == [k \in {} |-> 0]

NoStats == [attempts |-> 0, successes |-> 0, avg_time |-> 0, last_seen |-> -1]

(* int(x): truncation towards zero *)
IntOf(x) == IF x.s = -1 THEN 0 - FFloor(x) ELSE FFloor(x)

(* max(1.0, min(10.0, x)) *)
Clamp(x) ==
    IF FGt(FFromInt(1), x) THEN FFromInt(1)
    ELSE IF FGt(x, FFromInt(10)) THEN FFromInt(10)
    ELSE x

SuccessRate(stats) == FDivInt(FFromInt(stats.successes), stats.attempts)

(* lines 44-51: the success-rate correction of personal_diff *)
HistoryCorrection(personal_diff, stats) ==
    IF stats.attempts < 2 THEN personal_diff
    ELSE IF FGt(SuccessRate(stats), F10(8)) THEN FAdd(personal_diff, FHalf)
    ELSE IF FGt(F10(4), SuccessRate(stats)) THEN FSub(personal_diff, FHalf)
    ELSE personal_diff

calculate_personalized_difficulty(base_difficulty, user_profile, problem_id) ==
    Clamp(HistoryCorrection(
            DictGet(user_profile.difficulty_adjustments, problem_id,
                    FFromInt(base_difficulty)),
            DictGet(user_profile.problem_history, problem_id, NoStats)))

(* lines 85-91: the spaced-repetition bonus of a topic last seen           *)
(* days_since days ago (-1: never)                                         *)
RecencyBonus(days_since) ==
    IF days_since < 0 THEN FZero
    ELSE IF 2 <= days_since /\ days_since <= 7 THEN FFromInt(-1)
    ELSE IF days_since > 14 THEN FFromInt(-2)
    ELSE FZero

calculate_topic_priority(topic, user_profile, topic_count) ==
    FAdd(FAdd(FMul(DictGet(user_profile.topic_mastery, topic, FZero), FFromInt(2)),
              FMul(FFromInt(DictGet(topic_count, topic, 0)), F10(15))),
         RecencyBonus(DictGet(user_profile.topic_last_seen, topic, -1)))

calculate_time_estimate(base_duration, user_profile, problem_id) ==
    IF DictGet(user_profile.problem_history, problem_id, NoStats).avg_time # 0
    THEN IntOf(FMul(FFromInt(DictGet(user_profile.problem_history, problem_id,
                                     NoStats).avg_time), F10(11)))
    ELSE IntOf(FMul(FFromInt(base_duration), user_profile.speed_factor))

TopicSet(p) == {p.topics[i] : i \in 1..Len(p.topics)}

get_diversity_bonus(p, selected_topics) ==
    FMul(FNeg(FHalf), FFromInt(Cardinality(TopicSet(p) \ selected_topics)))

(* the default profile of lines 178-185 *)
DefaultPlanProfile ==
    [kind |-> "dict", difficulty_adjustments |-> EmptyMap, topic_mastery |-> EmptyMap,
     problem_history |-> EmptyMap, speed_factor |-> FFromInt(1),
     topic_last_seen |-> EmptyMap]

MaxOf(keys) == CHOOSE k \in keys : \A j \in keys : j <= k

(* sum(adjustments.values()), the keys taken in ascending order *)
RECURSIVE AdjustmentSum(_, _)
AdjustmentSum(adjustments, keys) ==
    IF keys = {} THEN FZero
    ELSE FAdd(AdjustmentSum(adjustments, keys \ {MaxOf(keys)}),
              adjustments[MaxOf(keys)])

(* lines 192-197 *)
SkillLevel(adjustments, min_d, max_d) ==
    IF DOMAIN adjustments # {}
    THEN FDivInt(AdjustmentSum(adjustments, DOMAIN adjustments),
                 Cardinality(DOMAIN adjustments))
    ELSE FDivInt(FFromInt(min_d + max_d), 2)

FMin(x, y) == IF FGt(x, y) THEN y ELSE x

FAbs(x) == IF x.s = -1 THEN FNeg(x) ELSE x

(* min(skill_level + 0.5, max_d) *)
TargetDifficulty(user_profile, min_d, max_d) ==
    FMin(FAdd(SkillLevel(user_profile.difficulty_adjustments, min_d, max_d), FHalf),
         FFromInt(max_d))

RECURSIVE TopicPrioritySum(_, _, _, _)
TopicPrioritySum(topics, user_profile, topic_count, i) ==
    IF i = 0 THEN FZero
    ELSE FAdd(TopicPrioritySum(topics, user_profile, topic_count, i - 1),
              calculate_topic_priority(topics[i], user_profile, topic_count))

(* lines 228-234: the bonus of a problem last seen days_since days ago *)
SpacedRepBonus(days_since) ==
    IF 3 <= days_since /\ days_since <= 10 THEN FNeg(F10(15)) ELSE FZero

(* lines 212-242: the score of problem p, personal_diff being in range *)
Score(p, personal_diff, target_difficulty, user_profile) ==
    FAdd(FAdd(FAdd(FMul(FAbs(FSub(personal_diff, target_difficulty)), FFromInt(2)),
                   FDivInt(TopicPrioritySum(p.topics, user_profile, EmptyMap,
                                            Len(p.topics)),
                           Len(p.topics))),
              get_diversity_bonus(p, {})),
         SpacedRepBonus(DictGet(user_profile.problem_history, p.id, NoStats).last_seen))

InRange(min_d, x, max_d) == FGe(x, FFromInt(min_d)) /\ FGe(FFromInt(max_d), x)

(* line 210: min_d <= personal_diff <= max_d *)
Eligible(p, personal_diff, min_d, max_d) == InRange(min_d, personal_diff, max_d)

HeapEntry(p, personal_diff, target_difficulty, user_profile) ==
    [score |-> Score(p, personal_diff, target_difficulty, user_profile),
     id |-> p.id, problem |-> p, personal_diff |-> personal_diff]

(* the tuples pushed on the heap, in the order of the problem list *)
EntryFor(p, personal_diff, target_difficulty, min_d, max_d, user_profile) ==
    IF Eligible(p, personal_diff, min_d, max_d)
    THEN <<HeapEntry(p, personal_diff, target_difficulty, user_profile)>>
    ELSE <<>>

RECURSIVE HeapEntries(_, _, _, _, _, _)
HeapEntries(problems, i, target_difficulty, min_d, max_d, user_profile) ==
    IF i = 0 THEN <<>>
    ELSE HeapEntries(problems, i - 1, target_difficulty, min_d, max_d, user_profile)
         \o EntryFor(problems[i],
                     calculate_personalized_difficulty(problems[i].difficulty,
                                                       user_profile, problems[i].id),
                     target_difficulty, min_d, max_d, user_profile)

(* the order of the heap's tuples: by score, then by id *)
EntryBefore(a, b) == FGt(b.score, a.score) \/ (a.score = b.score /\ a.id < b.id)

RECURSIVE InsertEntry(_, _)
InsertEntry(x, sorted) ==
    IF sorted = <<>> THEN <<x>>
    ELSE IF EntryBefore(x, Head(sorted)) THEN <<x>> \o sorted
    ELSE <<Head(sorted)>> \o InsertEntry(x, Tail(sorted))

(* the order in which successive heappop calls return the tuples *)
RECURSIVE PopOrder(_)
PopOrder(entries) ==
    IF entries = <<>> THEN entries
    ELSE InsertEntry(Head(entries), PopOrder(Tail(entries)))

(* the plan item: the problem's fields and estimated_time (the rounded     *)
(* personalized_difficulty and priority_score are not modelled)            *)
PlanItem(problem, estimated_time) ==
    [id |-> problem.id, topics |-> problem.topics, duration |-> problem.duration,
     difficulty |-> problem.difficulty, estimated_time |-> estimated_time]

RECURSIVE SelectFrom(_, _, _, _, _, _)
(* variant: the budget tested before the estimate is added *)
SelectStep_before(order, i, sel, total_time, time_limit, user_profile, estimated_time) ==
    IF total_time <= time_limit
    THEN SelectFrom(order, i + 1, Append(sel, PlanItem(order[i].problem, estimated_time)),
                    total_time + estimated_time, time_limit, user_profile)
    ELSE SelectFrom(order, i + 1, sel, total_time, time_limit, user_profile)

(* lines 267-277 *)
SelectStep(order, i, sel, total_time, time_limit, user_profile, estimated_time) ==
    IF total_time + estimated_time <= time_limit
    THEN SelectFrom(order, i + 1, Append(sel, PlanItem(order[i].problem, estimated_time)),
                    total_time + estimated_time, time_limit, user_profile)
    ELSE SelectFrom(order, i + 1, sel, total_time, time_limit, user_profile)

(* lines 259-265: while heap and total_time < time_limit *)
SelectFrom(order, i, sel, total_time, time_limit, user_profile) ==
    IF i > Len(order) \/ total_time >= time_limit THEN sel
    ELSE SelectStep(order, i, sel, total_time, time_limit, user_profile,
                    calculate_time_estimate(order[i].problem.duration, user_profile,
                                            order[i].problem.id))

PlanWithProfile(problems, time_limit, min_d, max_d, user_profile) ==
    SelectFrom(PopOrder(HeapEntries(problems, Len(problems),
                                    TargetDifficulty(user_profile, min_d, max_d),
                                    min_d, max_d, user_profile)),
               1, <<>>, 0, time_limit, user_profile)

(* generate_plan: what it raises and the plan it returns *)
generate_plan(problems, time_limit, min_d, max_d, user_profile) ==
    IF time_limit <= 0
    THEN [raised |-> "ValueError", plan |-> <<>>]
    ELSE [raised |-> "none",
          plan |-> PlanWithProfile(problems, time_limit, min_d, max_d,
                                   IF user_profile.kind = "none" THEN DefaultPlanProfile
                                   ELSE user_profile)]

----------------------------------------------------------------------------
(* Calls of generate_plan: a sub-list of a catalogue (the four problems of *)
(* the tests and a two-topic problem of difficulty 8), a time limit, a     *)
(* difficulty range, and no profile or one of three profiles.              *)

Problem(id, topics, duration, difficulty) ==
    [id |-> id, topics |-> topics, duration |-> duration, difficulty |-> difficulty]

Catalogue ==
    <<Problem(1, <<"array">>, 15, 3), Problem(2, <<"tree">>, 25, 5),
      Problem(3, <<"dp">>, 35, 7), Problem(4, <<"array">>, 20, 3),
      Problem(5, <<"graph", "dp">>, 40, 8)>>

RECURSIVE Pick(_, _, _)
Pick(xs, keep, i) ==
    IF i > Len(xs) THEN <<>>
    ELSE (IF i \in keep THEN <<xs[i]>> ELSE <<>>) \o Pick(xs, keep, i + 1)

PlanTimeLimits == {-5, 0, 1, 30, 60, 90}
PlanRanges == {<<3, 7>>, <<1, 10>>, <<8, 10>>, <<4, 6>>}

NoPlanProfile == [kind |-> "none"]

(* the profile of test_plan_with_user_profile *)
TestPlanProfile ==
    [kind |-> "dict",
     difficulty_adjustments |-> (2 :> FDivInt(FFromInt(13), 2)),
     topic_mastery |-> ("array" :> F10(8)) @@ ("tree" :> F10(3)),
     problem_history |-> EmptyMap,
     speed_factor |-> F10(9),
     topic_last_seen |-> EmptyMap]

(* problems 3 and 5 rated 5.0 by the user, problem 1 solved three times *)
RatedPlanProfile ==
    [kind |-> "dict",
     difficulty_adjustments |-> (3 :> FFromInt(5)) @@ (5 :> FFromInt(5)),
     topic_mastery |-> ("dp" :> FHalf),
     problem_history |->
        (1 :> [attempts |-> 3, successes |-> 3, avg_time |-> 16, last_seen |-> 5]),
     speed_factor |-> FFromInt(1),
     topic_last_seen |-> ("array" :> 3) @@ ("dp" :> 20)]

(* a slow user who failed problem 4 twice *)
SlowPlanProfile ==
    [kind |-> "dict",
     difficulty_adjustments |-> EmptyMap,
     topic_mastery |-> EmptyMap,
     problem_history |->
        (4 :> [attempts |-> 2, successes |-> 0, avg_time |-> 0, last_seen |-> -1]),
     speed_factor |-> F10(15),
     topic_last_seen |-> EmptyMap]

PlanProfiles == {NoPlanProfile, TestPlanProfile, RatedPlanProfile, SlowPlanProfile}

InitPlan ==
    /\ events = <<>>
    /\ now = 0
    /\ HistIdle
    /\ ConcIdle
    /\ DetIdle
    /\ met = [pc |-> "idle"]
    /\ resp = NoResp
    /\ ali = [heap |-> <<>>, deque |-> <<>>, list |-> <<>>]
    /\ adapt = [pc |-> "idle"]
    /\ vec = [pc |-> "idle"]
    /\ profile = [pc |-> "idle"]
    /\ \E keep \in SUBSET (1..Len(Catalogue)), time_limit \in PlanTimeLimits,
          range \in PlanRanges, user_profile \in PlanProfiles :
        plan = [pc |-> "call", problems |-> Pick(Catalogue, keep, 1),
                time_limit |-> time_limit, min_d |-> range[1], max_d |-> range[2],
                user_profile |-> user_profile]

AfterPlan(c, r) ==
    [pc |-> "returned", problems |-> c.problems, time_limit |-> c.time_limit,
     min_d |-> c.min_d, max_d |-> c.max_d, user_profile |-> c.user_profile,
     raised |-> r.raised, plan |-> r.plan]

GeneratePlan ==
    /\ plan.pc = "call"
    /\ plan' = AfterPlan(plan, generate_plan(plan.problems, plan.time_limit, plan.min_d,
                                             plan.max_d, plan.user_profile))
    /\ UNCHANGED <<winVars, concVars, detVars, met, resp, ali, adapt, vec, profile>>

NextPlan == GeneratePlan

SpecPlan == InitPlan /\ [][NextPlan]_vars

Planned == plan.pc = "returned"

EstimatedTimes == [i \in 1..Len(plan.plan) |-> plan.plan[i].estimated_time]

(* C21. Plan respects the time budget: for every problem list, difficulty  *)
(* range and user profile, generate_plan with time_limit > 0 returns a     *)
(* plan whose estimated_time values sum to at most time_limit, and with    *)
(* time_limit <= 0 it raises ValueError.                                   *)
C21_PlanWithinTimeLimit ==
    Planned =>
        IF plan.time_limit <= 0
        THEN plan.raised = "ValueError"
        ELSE plan.raised = "none" /\ SeqSum(EstimatedTimes) <= plan.time_limit

(* a plan that fills part of a 60-minute budget and leaves out problems    *)
(* of the range that no longer fit                                         *)
C21_Witness ==
    /\ Planned
    /\ plan.time_limit = 60
    /\ plan.min_d = 1
    /\ plan.max_d = 10
    /\ Len(plan.problems) = 5
    /\ Len(plan.plan) >= 2
    /\ Len(plan.plan) < 5
    /\ SeqSum(EstimatedTimes) > 30

PlanDifficultiesInRange ==
    \A i \in 1..Len(plan.plan) :
        plan.min_d <= plan.plan[i].difficulty /\ plan.plan[i].difficulty <= plan.max_d

NoProblemInRange ==
    \A i \in 1..Len(plan.problems) :
        ~(plan.min_d <= plan.problems[i].difficulty
            /\ plan.problems[i].difficulty <= plan.max_d)

(* C22. Plan respects the difficulty range: for every problem list, min_d, *)
(* max_d and user profile, every problem of the returned plan has its      *)
(* difficulty field within [min_d, max_d], and the plan is empty when no   *)
(* problem of the list has.                                                *)
C22_PlanWithinDifficultyRange ==
    (Planned /\ plan.raised = "none") =>
        /\ PlanDifficultiesInRange
        /\ NoProblemInRange => plan.plan = <<>>

----------------------------------------------------------------------------
(* team-b-planner, backend/app/core/difficulty.py:                         *)
(* DifficultyAdapter.update_difficulty, with the default learning_rate.    *)

LEARNING_RATE == F10(3)

(* variant: the signs of the two adjustments exchanged *)
Adjustment_inverted(feedback) ==
    CASE feedback = "too_easy" -> FNeg(F10(15))
      [] feedback = "too_hard" -> F10(15)
      [] OTHER -> FZero

(* lines 49-54 *)
Adjustment(feedback) ==
    CASE feedback = "too_easy" -> F10(15)
      [] feedback = "too_hard" -> FNeg(F10(15))
      [] OTHER -> FZero

NoUserStats == [kind |-> "none"]

UserStats(attempts, successes) ==
    [kind |-> "dict", attempts |-> attempts, successes |-> successes]

(* lines 63-76: the further step for a consistent history *)
WithHistory(new_difficulty, feedback, user_stats) ==
    IF user_stats.kind = "none" \/ user_stats.attempts <= 0 THEN new_difficulty
    ELSE IF feedback = "too_easy" /\ FGt(SuccessRate(user_stats), F10(8))
    THEN FAdd(new_difficulty, F10(3))
    ELSE IF feedback = "too_hard" /\ FGt(F10(3), SuccessRate(user_stats))
    THEN FSub(new_difficulty, F10(3))
    ELSE new_difficulty

(* update_difficulty: what it raises and the value it returns *)
update_difficulty(old_difficulty, feedback, user_stats) ==
    IF feedback \notin {"too_easy", "too_hard", "just_right"}
    THEN [raised |-> "ValueError", value |-> FZero]
    ELSE [raised |-> "none",
          value |-> Clamp(WithHistory(FAdd(old_difficulty,
                                           FMul(LEARNING_RATE, Adjustment(feedback))),
                                      feedback, user_stats))]

(* Calls of update_difficulty: old_difficulty = k/10 for k in 10..100 *)
AdaptTenths == 10..100
AdaptFeedback == {"too_easy", "too_hard", "just_right", "invalid_feedback"}
AdaptStats ==
    {NoUserStats, UserStats(0, 0), UserStats(5, 5), UserStats(5, 1), UserStats(5, 3)}

InitAdapt ==
    /\ events = <<>>
    /\ now = 0
    /\ HistIdle
    /\ ConcIdle
    /\ DetIdle
    /\ met = [pc |-> "idle"]
    /\ resp = NoResp
    /\ ali = [heap |-> <<>>, deque |-> <<>>, list |-> <<>>]
    /\ plan = [pc |-> "idle"]
    /\ vec = [pc |-> "idle"]
    /\ profile = [pc |-> "idle"]
    /\ \E k \in AdaptTenths, feedback \in AdaptFeedback, user_stats \in AdaptStats :
        adapt = [pc |-> "call", tenths |-> k, old_difficulty |-> F10(k),
                 feedback |-> feedback, user_stats |-> user_stats]

AfterAdapt(c, r) ==
    [pc |-> "returned", tenths |-> c.tenths, old_difficulty |-> c.old_difficulty,
     feedback |-> c.feedback, user_stats |-> c.user_stats,
     raised |-> r.raised, value |-> r.value]

UpdateDifficulty ==
    /\ adapt.pc = "call"
    /\ adapt' = AfterAdapt(adapt, update_difficulty(adapt.old_difficulty, adapt.feedback,
                                                    adapt.user_stats))
    /\ UNCHANGED <<winVars, concVars, detVars, met, resp, ali, plan, vec, profile>>

NextAdapt == UpdateDifficulty

SpecAdapt == InitAdapt /\ [][NextAdapt]_vars

Adapted == adapt.pc = "returned"

ValidFeedback == adapt.feedback \in {"too_easy", "too_hard", "just_right"}

ResultInBounds == FGe(adapt.value, FFromInt(1)) /\ FGe(FFromInt(10), adapt.value)

(* C23 as stated. Feedback direction: for every old_difficulty in [1, 10]  *)
(* and any user_stats, too_easy returns a value strictly greater than      *)
(* old_difficulty, too_hard a strictly smaller one, just_right exactly     *)
(* old_difficulty; the result lies in [1.0, 10.0]; any other feedback      *)
(* raises ValueError.                                                      *)
C23_FeedbackDirection ==
    Adapted =>
        IF ~ValidFeedback THEN adapt.raised = "ValueError"
        ELSE /\ adapt.raised = "none"
             /\ ResultInBounds
             /\ (adapt.feedback = "too_easy") => FGt(adapt.value, adapt.old_difficulty)
             /\ (adapt.feedback = "too_hard") => FGt(adapt.old_difficulty, adapt.value)
             /\ (adapt.feedback = "just_right") => adapt.value = adapt.old_difficulty

(* C23 amended. too_easy returns a value strictly greater than             *)
(* old_difficulty when old_difficulty < 10 and 10.0 when it is 10;         *)
(* too_hard a strictly smaller value when old_difficulty > 1 and 1.0 when  *)
(* it is 1; just_right exactly old_difficulty; the result lies in          *)
(* [1.0, 10.0]; any other feedback raises ValueError.                      *)
C23_FeedbackDirectionInsideBounds ==
    Adapted =>
        IF ~ValidFeedback THEN adapt.raised = "ValueError"
        ELSE /\ adapt.raised = "none"
             /\ ResultInBounds
             /\ (adapt.feedback = "too_easy") =>
                    IF adapt.tenths < 100 THEN FGt(adapt.value, adapt.old_difficulty)
                    ELSE adapt.value = FFromInt(10)
             /\ (adapt.feedback = "too_hard") =>
                    IF adapt.tenths > 10 THEN FGt(adapt.old_difficulty, adapt.value)
                    ELSE adapt.value = FFromInt(1)
             /\ (adapt.feedback = "just_right") => adapt.value = adapt.old_difficulty

(* too_easy on 9.8 with a perfect history: clamped to 10.0, still above    *)
(* the old value                                                           *)
C23_Witness ==
    /\ Adapted
    /\ adapt.tenths = 98
    /\ adapt.feedback = "too_easy"
    /\ adapt.user_stats = UserStats(5, 5)
    /\ adapt.value = FFromInt(10)

----------------------------------------------------------------------------
(* team-a-recommender, backend/app/core/vectorizer.py: TextVectorizer, a   *)
(* wrapper with its own `fitted` flag around sklearn's TfidfVectorizer.    *)
(* The inner vectorizer raises ValueError (empty vocabulary) when fitted   *)
(* on documents that leave no term after preprocessing and stop-word       *)
(* removal, and NotFittedError when asked to transform before a fit.       *)
(* Document lists: the empty list, a list with only stop words, a list     *)
(* with terms.                                                             *)

VecMaxCalls == 3    \* calls made on the instance

DocLists == {"empty", "stop_words", "terms"}

(* TfidfVectorizer.fit / fit_transform on a non-empty list: the exception, *)
(* and whether the inner vectorizer has a vocabulary afterwards            *)
SkFit(inner_fitted, documents) ==
    IF documents = "terms" THEN [raised |-> "none", inner_fitted |-> TRUE]
    ELSE [raised |-> "ValueError", inner_fitted |-> inner_fitted]

(* TfidfVectorizer.transform *)
SkTransform(inner_fitted) == IF inner_fitted THEN "none" ELSE "NotFittedError"

(* fit: the flag is set after the inner fit has returned *)
VecFitAfter(v, sk) ==
    [fitted |-> IF sk.raised = "none" THEN TRUE ELSE v.fitted,
     inner_fitted |-> sk.inner_fitted, raised |-> sk.raised]

VecFit(v, documents) ==
    IF documents = "empty"
    THEN [fitted |-> v.fitted, inner_fitted |-> v.inner_fitted, raised |-> "ValueError"]
    ELSE VecFitAfter(v, SkFit(v.inner_fitted, documents))

(* fit_transform: the flag is set before the inner fit_transform is called *)
VecFitTransformAfter(v, sk) ==
    [fitted |-> TRUE, inner_fitted |-> sk.inner_fitted, raised |-> sk.raised]

VecFitTransform(v, documents) ==
    IF documents = "empty"
    THEN [fitted |-> v.fitted, inner_fitted |-> v.inner_fitted, raised |-> "ValueError"]
    ELSE VecFitTransformAfter(v, SkFit(v.inner_fitted, documents))

VecTransform(v, documents) ==
    [fitted |-> v.fitted, inner_fitted |-> v.inner_fitted,
     raised |-> IF ~v.fitted THEN "RuntimeError" ELSE SkTransform(v.inner_fitted)]

(* TextVectorizer(): a new instance, and no call made yet *)
InitVec ==
    /\ events = <<>>
    /\ now = 0
    /\ HistIdle
    /\ ConcIdle
    /\ DetIdle
    /\ met = [pc |-> "idle"]
    /\ resp = NoResp
    /\ ali = [heap |-> <<>>, deque |-> <<>>, list |-> <<>>]
    /\ plan = [pc |-> "idle"]
    /\ adapt = [pc |-> "idle"]
    /\ profile = [pc |-> "idle"]
    /\ vec = [pc |-> "live", fitted |-> FALSE, inner_fitted |-> FALSE, log |-> <<>>]

VecCall(op, documents, r) ==
    /\ vec' = [pc |-> "live", fitted |-> r.fitted, inner_fitted |-> r.inner_fitted,
               log |-> Append(vec.log, [op |-> op, documents |-> documents,
                                        raised |-> r.raised, before |-> vec.fitted,
                                        after |-> r.fitted])]
    /\ UNCHANGED <<winVars, concVars, detVars, met, resp, ali, plan, adapt, profile>>

Fit ==
    /\ Len(vec.log) < VecMaxCalls
    /\ \E documents \in DocLists : VecCall("fit", documents, VecFit(vec, documents))

FitTransform ==
    /\ Len(vec.log) < VecMaxCalls
    /\ \E documents \in DocLists :
        VecCall("fit_transform", documents, VecFitTransform(vec, documents))

Transform ==
    /\ Len(vec.log) < VecMaxCalls
    /\ \E documents \in DocLists :
        VecCall("transform", documents, VecTransform(vec, documents))

NextVec == Fit \/ FitTransform \/ Transform

SpecVec == InitVec /\ [][NextVec]_vars

(* a fit or fit_transform call among the first i - 1 completed without an exception *)
FittedBefore(i) ==
    \E j \in 1..(i - 1) :
        vec.log[j].op \in {"fit", "fit_transform"} /\ vec.log[j].raised = "none"

(* C24. Fit-before-transform protocol: in every sequence of fit,           *)
(* fit_transform and transform calls, transform raises RuntimeError if and *)
(* only if no earlier fit or fit_transform call on the instance completed  *)
(* successfully; fit and fit_transform on an empty document list raise     *)
(* ValueError and leave the instance as unfitted as it was.                *)
C24_FitBeforeTransform ==
    \A i \in 1..Len(vec.log) :
        /\ (vec.log[i].op = "transform") =>
              ((vec.log[i].raised = "RuntimeError") <=> ~FittedBefore(i))
        /\ (vec.log[i].op # "transform" /\ vec.log[i].documents = "empty") =>
              (vec.log[i].raised = "ValueError" /\ vec.log[i].after = vec.log[i].before)

----------------------------------------------------------------------------
(* Further claims on the window *)

Expired(event, t) ==
    event.timestamp.kind = "aware" /\ t - event.timestamp.t > WINDOW_MINUTES

(* the deque a sweep started on: the window before the call, with the new  *)
(* event appended when the call is add                                     *)
SweptFrom == IF last.op = "add" THEN Append(last.before, last.arg) ELSE last.before

Swept == last.op \in {"add", "get_events"} /\ last.status = "ok"

(* rest is what remains of full after removing its first k elements, all   *)
(* expired at time t, the next one (if any) not being expired              *)
MaximalExpiredPrefixRemoved(full, rest, t) ==
    \E k \in 0..Len(full) :
        /\ rest = SubSeq(full, k + 1, Len(full))
        /\ \A i \in 1..k : Expired(full[i], t)
        /\ (k < Len(full)) => ~Expired(full[k + 1], t)

(* C25. Prefix-only sweep: each sweep (in add after the append, in         *)
(* get_events before the copy) removes exactly the maximal contiguous      *)
(* prefix of expired events and stops at the first head in range; an       *)
(* expired event behind an in-range event stays and is returned by         *)
(* get_events.                                                             *)
C25_PrefixOnlySweep ==
    Swept =>
        /\ MaximalExpiredPrefixRemoved(SweptFrom, events, last.time)
        /\ (last.op = "get_events") => last.ret = events

(* a get_events call that removed an expired head and returned an expired  *)
(* event behind an in-range one                                            *)
C25_Witness ==
    /\ last.op = "get_events"
    /\ last.status = "ok"
    /\ Len(last.ret) < Len(last.before)
    /\ \E i \in 2..Len(last.ret) : Expired(last.ret[i], last.time)

----------------------------------------------------------------------------
(* Admission order. Every object passed to add gets the next index of the  *)
(* heap, so indices follow the order of the add calls; `admitted` records  *)
(* for each whether its add call returned without an exception.            *)

OrderMaxObjs == 3   \* add calls made

(* variant: appendleft in place of append *)
DequeAppend_left(ids, id) == <<id>> \o ids

(* self.events.append(event) *)
DequeAppend(ids, id) == Append(ids, id)

OrderAddAfter(heap, ids, r) ==
    ali' = [heap |-> heap, deque |-> KeepLast(ids, r.events), list |-> ali.list,
            admitted |-> Append(ali.admitted, ~r.raised),
            op |-> "add", status |-> IF r.raised THEN "RuntimeError" ELSE "ok"]

OrderAddStep(heap, ids) ==
    OrderAddAfter(heap, ids, evict_old_events(Deref(heap, ids), now))

OrderAdd ==
    /\ Len(ali.heap) < OrderMaxObjs
    /\ \E ts \in OfferedTs :
        OrderAddStep(Append(ali.heap, MkEvent(ts, "user123", 120, 50)),
                     DequeAppend(ali.deque, Len(ali.heap) + 1))
    /\ UNCHANGED <<winVars, concVars, detVars, met, resp, appVars>>

OrderGetAfter(r) ==
    ali' = [heap |-> ali.heap, deque |-> KeepLast(ali.deque, r.events),
            list |-> IF r.raised THEN ali.list ELSE KeepLast(ali.deque, r.events),
            admitted |-> ali.admitted,
            op |-> "get_events", status |-> IF r.raised THEN "RuntimeError" ELSE "ok"]

OrderGetEvents ==
    /\ OrderGetAfter(evict_old_events(Deref(ali.heap, ali.deque), now))
    /\ UNCHANGED <<winVars, concVars, detVars, met, resp, appVars>>

InitOrder ==
    /\ events = <<>>
    /\ now = 0
    /\ HistIdle
    /\ ConcIdle
    /\ DetIdle
    /\ met = [pc |-> "idle"]
    /\ resp = NoResp
    /\ AppIdle
    /\ ali = [heap |-> <<>>, deque |-> <<>>, list |-> <<>>, admitted |-> <<>>,
              op |-> "none", status |-> "ok"]

NextOrder == AliasTick \/ OrderAdd \/ OrderGetEvents

SpecOrder == InitOrder /\ [][NextOrder]_vars

AdmittedIds == {i \in 1..Len(ali.admitted) : ali.admitted[i]}

(* C26. Admission order is preserved: the list returned by get_events is a *)
(* subsequence of the events successfully admitted so far, in admission    *)
(* order, each at most once and none that was not admitted; the newest     *)
(* admitted event is last unless it was evicted.                           *)
C26_AdmissionOrderPreserved ==
    (ali.op = "get_events" /\ ali.status = "ok") =>
        /\ \A i \in 1..Len(ali.list) : ali.list[i] \in AdmittedIds
        /\ \A i, j \in 1..Len(ali.list) : (i < j) => (ali.list[i] < ali.list[j])
        /\ ali.list = ali.deque
        /\ (AdmittedIds # {} /\ ali.list # <<>>) =>
              \/ ali.list[Len(ali.list)] = MaxOf(AdmittedIds)
              \/ Expired(ali.heap[MaxOf(AdmittedIds)], now)

(* three admitted events, the first evicted, the other two returned in the *)
(* order of their add calls                                                *)
C26_Witness ==
    /\ ali.op = "get_events"
    /\ ali.status = "ok"
    /\ AdmittedIds = {1, 2, 3}
    /\ ali.list = <<2, 3>>

----------------------------------------------------------------------------
(* Further claims on the concurrent service *)

(* thread t executes its popleft in this step *)
Pops(t) == pc[t] = "popleft" /\ pc'[t] # "popleft"

(* C27. No live event is lost to a race: under any interleaving of         *)
(* concurrent add and get_events calls, every popleft finds the window     *)
(* non-empty and removes an event whose age exceeds the retention          *)
(* duration.                                                               *)
C27_NoLiveEventLost ==
    [][\A t \in Threads : Pops(t) => (events # <<>> /\ Expired(Head(events), now))]_vars

----------------------------------------------------------------------------
(* Further claims on the failure paths of the window *)

(* C28. A failed ingestion does not poison the service: after an add call  *)
(* has failed, every later add of a valid event (one LogEvent accepts,     *)
(* with an aware timestamp) and every later get_events call succeeds.      *)
C28_FailedAddDoesNotPoison ==
    [][(last.op = "add" /\ last.status # "ok") =>
          /\ (last'.op = "get_events") => last'.status = "ok"
          /\ (last'.op = "add" /\ LogEventValid(last'.arg)
                /\ last'.arg.timestamp.kind = "aware") => last'.status = "ok"]_vars

(* C29. Small windows cannot raise a latency spike: for every list of n    *)
(* well-formed events with 5 <= n <= 10 and positive integer latencies,    *)
(* detect_anomalies does not return the CRITICAL latency-spike signal.     *)
C29_SmallWindowNoSpike ==
    (/\ Returned /\ det.raised = "none"
     /\ Len(det.events) >= MIN_EVENTS_FOR_ANALYSIS /\ Len(det.events) <= 10
     /\ WellFormed(det.events)
     /\ \A i \in 1..Len(det.events) : det.events[i].latency_ms > 0) =>
        ~Has(det.anomalies, CRITICAL)

----------------------------------------------------------------------------
(* team-b-planner, backend/app/main.py: the stored user profile and the    *)
(* handlers submit_feedback and reset_profile. profile.file is the content *)
(* of the profile file: the per-problem difficulties, the per-problem      *)
(* attempts and successes, and the statistics. The problems are those of   *)
(* Catalogue. A time_spent of 0 stands for both 0 and None: every use of   *)
(* the field tests its truth value only.                                   *)

ProfMaxCalls == 3
ProfMaxItems == 2

(* create_default_profile *)
create_default_profile ==
    [difficulty_adjustments |-> EmptyMap,
     problem_history |-> EmptyMap,
     statistics |-> [total_sessions |-> 0,
                     total_problems_attempted |-> 0,
                     total_problems_solved |-> 0,
                     total_practice_time |-> 0,
                     current_streak |-> 0,
                     longest_streak |-> 0]]

(* load_problems_as_dict: problem id -> problem *)
load_problems_as_dict ==
    [id \in {Catalogue[i].id : i \in 1..Len(Catalogue)} |->
        CHOOSE p \in {Catalogue[i] : i \in 1..Len(Catalogue)} : p.id = id]

FeedbackItem(problem_id, feedback, time_spent) ==
    [problem_id |-> problem_id, feedback |-> feedback, time_spent |-> time_spent]

(* d[k] = v on a copy of the dict d *)
DictPut(d, k, v) == [x \in (DOMAIN d) \cup {k} |-> IF x = k THEN v ELSE d[x]]

(* difficulty.py, batch_update_difficulties: user_history.get(problem_id)  *)
(* when user_history is not empty, else None                               *)
HistoryStats(user_history, problem_id) ==
    IF problem_id \in DOMAIN user_history
    THEN UserStats(user_history[problem_id].attempts, user_history[problem_id].successes)
    ELSE NoUserStats

RECURSIVE BatchFrom(_, _, _, _, _)
RECURSIVE BatchStep(_, _, _, _, _, _)

(* one item of batch_update_difficulties, r the result of update_difficulty *)
BatchStep(feedback_list, i, current_difficulties, user_history, updated, r) ==
    IF r.raised # "none" THEN [raised |-> r.raised, value |-> updated]
    ELSE BatchFrom(feedback_list, i + 1, current_difficulties, user_history,
                   DictPut(updated, feedback_list[i].problem_id, r.value))

BatchFrom(feedback_list, i, current_difficulties, user_history, updated) ==
    IF i > Len(feedback_list) THEN [raised |-> "none", value |-> updated]
    ELSE BatchStep(feedback_list, i, current_difficulties, user_history, updated,
                   update_difficulty(DictGet(current_difficulties,
                                             feedback_list[i].problem_id, FFromInt(5)),
                                     feedback_list[i].feedback,
                                     HistoryStats(user_history, feedback_list[i].problem_id)))

batch_update_difficulties(feedback_list, current_difficulties, user_history) ==
    BatchFrom(feedback_list, 1, current_difficulties, user_history, current_difficulties)

IsSuccess(feedback) == feedback \in {"just_right", "too_easy"}

NewHistory == [attempts |-> 0, successes |-> 0]

(* difficulty.py, update_user_profile, lines 408-414 *)
Attempted(stats, feedback) ==
    [attempts |-> stats.attempts + 1,
     successes |-> stats.successes + (IF IsSuccess(feedback) THEN 1 ELSE 0)]

(* difficulty.py, update_user_profile, lines 397-424: the loop over the    *)
(* feedback items; problem_data[problem_id] raises KeyError                *)
RECURSIVE UpdateHistoryFrom(_, _, _, _)
UpdateHistoryFrom(feedback_list, i, problem_data, problem_history) ==
    IF i > Len(feedback_list) THEN [raised |-> "none", value |-> problem_history]
    ELSE IF /\ feedback_list[i].problem_id \notin DOMAIN problem_history
            /\ feedback_list[i].problem_id \notin DOMAIN problem_data
    THEN [raised |-> "KeyError", value |-> problem_history]
    ELSE UpdateHistoryFrom(feedback_list, i + 1, problem_data,
             DictPut(problem_history, feedback_list[i].problem_id,
                     Attempted(DictGet(problem_history, feedback_list[i].problem_id,
                                       NewHistory),
                               feedback_list[i].feedback)))

(* update_user_profile, given the results d of batch_update_difficulties   *)
(* and h of the loop over the items                                        *)
UpdatedProfile(user_profile, d, h) ==
    IF d.raised # "none" THEN [raised |-> d.raised, profile |-> user_profile]
    ELSE IF h.raised # "none" THEN [raised |-> h.raised, profile |-> user_profile]
    ELSE [raised |-> "none",
          profile |-> [user_profile EXCEPT !.difficulty_adjustments = d.value,
                                           !.problem_history = h.value]]

update_user_profile(user_profile, feedback_list, problem_data) ==
    UpdatedProfile(user_profile,
                   batch_update_difficulties(feedback_list,
                                             user_profile.difficulty_adjustments,
                                             user_profile.problem_history),
                   UpdateHistoryFrom(feedback_list, 1, problem_data,
                                     user_profile.problem_history))

RECURSIVE Successes(_, _)
Successes(feedback, i) ==
    IF i > Len(feedback) THEN 0
    ELSE (IF IsSuccess(feedback[i].feedback) THEN 1 ELSE 0) + Successes(feedback, i + 1)

RECURSIVE TotalTime(_, _)
TotalTime(feedback, i) ==
    IF i > Len(feedback) THEN 0
    ELSE feedback[i].time_spent + TotalTime(feedback, i + 1)

(* main.py, lines 273-281 *)
Streak(stats, successes) ==
    IF successes > 0
    THEN [stats EXCEPT !.current_streak = stats.current_streak + 1,
                       !.longest_streak = IF stats.current_streak + 1 > stats.longest_streak
                                          THEN stats.current_streak + 1
                                          ELSE stats.longest_streak]
    ELSE [stats EXCEPT !.current_streak = 0]

(* main.py, lines 256-271 *)
Counted(stats, feedback) ==
    [stats EXCEPT !.total_problems_attempted = stats.total_problems_attempted + Len(feedback),
                  !.total_problems_solved =
                      stats.total_problems_solved + Successes(feedback, 1),
                  !.total_practice_time = stats.total_practice_time + TotalTime(feedback, 1)]

(* submit_feedback, given the result r of update_user_profile: the status  *)
(* of the response and the content of the profile file afterwards          *)
FeedbackOutcome(file, feedback, r) ==
    IF r.raised # "none" THEN [status |-> 500, raised |-> r.raised, file |-> file]
    ELSE [status |-> 200, raised |-> "none",
          file |-> [r.profile EXCEPT
                       !.statistics = Streak(Counted(r.profile.statistics, feedback),
                                             Successes(feedback, 1))]]

submit_feedback(file, feedback) ==
    FeedbackOutcome(file, feedback,
                    update_user_profile(file, feedback, load_problems_as_dict))

(* reset_profile *)
reset_profile == [status |-> 200, raised |-> "none", file |-> create_default_profile]

(* The requests: up to ProfMaxItems items, each on a problem of the        *)
(* catalogue or on an unknown problem, with one of the three feedback      *)
(* words or another word                                                   *)
ProfItems ==
    {FeedbackItem(1, "too_easy", 10), FeedbackItem(1, "just_right", 0),
     FeedbackItem(1, "too_hard", 10), FeedbackItem(1, "skipped", 0),
     FeedbackItem(9, "too_hard", 0)}

ProfRequests == UNION {[1..n -> ProfItems] : n \in 0..ProfMaxItems}

InitProfile ==
    /\ events = <<>>
    /\ now = 0
    /\ HistIdle
    /\ ConcIdle
    /\ DetIdle
    /\ met = [pc |-> "idle"]
    /\ resp = NoResp
    /\ ali = [heap |-> <<>>, deque |-> <<>>, list |-> <<>>]
    /\ plan = [pc |-> "idle"]
    /\ adapt = [pc |-> "idle"]
    /\ vec = [pc |-> "idle"]
    /\ profile = [pc |-> "live", file |-> create_default_profile, calls |-> 0,
                  op |-> "none", status |-> 0, feedback |-> <<>>,
                  before |-> create_default_profile]

ProfileAfter(p, op, feedback, r) ==
    [pc |-> "live", file |-> r.file, calls |-> p.calls + 1,
     op |-> op, status |-> r.status, feedback |-> feedback, before |-> p.file]

SubmitFeedback ==
    /\ profile.pc = "live"
    /\ profile.calls < ProfMaxCalls
    /\ \E feedback \in ProfRequests :
        profile' = ProfileAfter(profile, "submit_feedback", feedback,
                                submit_feedback(profile.file, feedback))
    /\ UNCHANGED <<winVars, concVars, detVars, met, resp, ali, plan, adapt, vec>>

ResetProfile ==
    /\ profile.pc = "live"
    /\ profile.calls < ProfMaxCalls
    /\ profile' = ProfileAfter(profile, "reset_profile", <<>>, reset_profile)
    /\ UNCHANGED <<winVars, concVars, detVars, met, resp, ali, plan, adapt, vec>>

NextProfile == SubmitFeedback \/ ResetProfile

SpecProfile == InitProfile /\ [][NextProfile]_vars

StatsConsistent(stats) ==
    /\ stats.longest_streak >= stats.current_streak
    /\ stats.current_streak >= 0
    /\ stats.total_problems_solved <= stats.total_problems_attempted

NoSuccessSubmitted ==
    /\ profile.op = "submit_feedback"
    /\ Successes(profile.feedback, 1) = 0

(* C30. Streak counters stay consistent: starting from a default profile,  *)
(* after any sequence of submit_feedback and reset_profile calls the       *)
(* stored statistics satisfy longest_streak >= current_streak >= 0 and     *)
(* total_problems_solved <= total_problems_attempted, and a submission     *)
(* with no successful item leaves current_streak at 0 and longest_streak   *)
(* as it was before the submission.                                        *)
C30_StreaksConsistent ==
    /\ profile.pc = "live" => StatsConsistent(profile.file.statistics)
    /\ (profile.pc = "live" /\ NoSuccessSubmitted) =>
          /\ profile.file.statistics.current_streak = 0
          /\ profile.file.statistics.longest_streak =
                 profile.before.statistics.longest_streak

====
